---- MODULE Spec2Model ----
(***************************************************************************)
(* A model of the PHOLD benchmark component of sst-benchmarks              *)
(* (phold/Node.cpp): a grid of nodes that forward events to neighbours,    *)
(* with a per-node random stream, a movement policy, a delay model, an     *)
(* initial load and checkpoint serialization.                              *)
(*                                                                         *)
(* Time is in picoseconds.  Reals are exact rationals <<num, den>> with    *)
(* den > 0.  The host kernel (SST) is the environment: it runs every       *)
(* setup() before the run loop, delivers to a node the events addressed to *)
(* it one at a time in delivery-time order, calls the clock handler at     *)
(* timeToRun and tears the simulation down once every primary component    *)
(* has voted OK-to-end.                                                    *)
(***************************************************************************)
EXTENDS Integers, Sequences, FiniteSets, TLC

VARIABLES
  cfg,        \* the configuration of the run (SST::Params and the build)
  node,       \* node index -> the fields of the Node object
  inflight,   \* the events sent on links and not yet delivered
  ps,         \* the function-local static TimeConverter of handleEvent
  snapshot,   \* the checkpoint of one node (or NoSnapshot)
  twin        \* the node rebuilt from snapshot (or NoTwin)

vars == <<cfg, node, inflight, ps, snapshot, twin>>

(***************************************************************************)
(* Bounds of the model.                                                    *)
(***************************************************************************)
MaxNodes == 4
MaxRings == 1
RngBits == 5
\* the width of int, scaled down like the words of the generator
IntBits == 5

(***************************************************************************)
(* Values that stand for C++ values.                                       *)
(***************************************************************************)
NoLink == -1                    \* a nullptr slot of the links vector
NoSnapshot == [taken |-> FALSE]
NoTwin == [built |-> FALSE]
HugeDelay == 1000000000         \* a delay beyond every horizon of the model

RANDOM == 0                     \* enum MovementFunctionType
CYCLIC == 1

(***************************************************************************)
(* The random stream.  SST::RNG::MersenneRNG is a library type; it is      *)
(* modelled as a full-period generator of RngBits-bit words.  Both         *)
(* generateNextUInt32() and nextUniform() advance the state by one word;   *)
(* nextUniform() is word / 2^RngBits, a real in [0,1).                     *)
(***************************************************************************)
RngMod == 2 ^ RngBits

RngSeed(id) == id % RngMod

RngNext(s) == (5 * s + 3) % RngMod

\* r < f for the uniform real r = word / RngMod and the rational f
UniformLess(word, f) == word * f[2] < f[1] * RngMod

(***************************************************************************)
(* Logged observations of one node (history only, no effect on behaviour). *)
(* Every entry is a 4-tuple <<tag, a, b, c>>:                              *)
(*   <<"uint32", word, 0, 0>>    one generateNextUInt32() draw             *)
(*   <<"uniform", word, 0, 0>>   one nextUniform() draw                    *)
(*   <<"select", ret, 0, 0>>     one call of the bound movementFunction    *)
(*   <<"delay", d, 0, 0>>        one call of timestepIncrementFunction     *)
(*   <<"payload", size, 0, 0>>   one call of createEvent                   *)
(*   <<"send", link, d, size>>   one Link::send on slot link               *)
(*   <<"setup", 0, 0, 0>>, <<"recv", recvCount, 0, 0>>, <<"tick", 0,0,0>>  *)
(***************************************************************************)
Logged(nd, e) == [nd EXCEPT !.log = Append(@, e)]

\* params.find<T>(key, default)
Find(params, key, default) ==
  IF key \in params.given THEN params[key] ELSE default

(***************************************************************************)
(* setupLinks<T>() (Node.h) fills slot k of links with the link configured *)
(* on port k, or nullptr when the port is not connected.  The topology     *)
(* script connects slot k to the neighbour at offset                       *)
(* (k \div side - rings, k % side - rings) when that cell lies in the grid *)
(* (links do not wrap around the edge); self links can be switched off.    *)
(* A slot holds the index of the neighbour node, or NoLink.                *)
(***************************************************************************)
setupLinks(topo, pos, numLinks) ==
  LET side == 2 * topo.numRings + 1
      row == pos \div topo.colCount
      col == pos % topo.colCount
      Slot(k) ==
        LET r == row + (k \div side) - topo.numRings
            c == col + (k % side) - topo.numRings
        IN IF /\ r >= 0 /\ r < topo.rowCount /\ c >= 0 /\ c < topo.colCount
              /\ (topo.selfLinks \/ r # row \/ c # col)
           THEN r * topo.colCount + c
           ELSE NoLink
  IN [k \in 1..numLinks |-> Slot(k - 1)]

(***************************************************************************)
(* Node::Node and the constructors of ExponentialNode and UniformNode.     *)
(***************************************************************************)
\* a check that writes its warning whether the parameter is there or not
WarnAlways(cond, msg) == <<msg>>

\* if (x == -1) {std::cerr << msg;}
Warn(cond, msg) == IF cond THEN <<msg>> ELSE <<>>

\* a generator seeded from the component id the kernel hands out
NewRngFromComponentId(id, myId) == RngSeed(id)

\* rng = new SST::RNG::MersenneRNG(myId): id is the SST component id
NewRng(id, myId) == RngSeed(myId)

\* an id computed with the number of rows for the row stride
GlobalIdByRows(myRow, myCol, rowCount, colCount) == myRow * rowCount + myCol

\* myId = myRow * colCount + myCol
GlobalId(myRow, myCol, rowCount, colCount) == myRow * colCount + myCol

\* a negative density left as it is
DensityAsGiven(eventDensity, links) == eventDensity

\* if (eventDensity < 0.0) eventDensity = links.size()
DensityOrLinks(eventDensity, links) ==
  IF eventDensity[1] < 0 THEN <<Len(links), 1>> ELSE eventDensity

\* an unrecognized name bound to the cyclic selector
BindMovementElseCyclic(movementFunctionStr) ==
  IF movementFunctionStr = "random"
  THEN [type |-> RANDOM, function |-> "movementFunctionRandom", err |-> <<>>]
  ELSE [type |-> CYCLIC, function |-> "movementFunctionCyclic", err |-> <<>>]

\* the policy named by the movementFunction parameter: its tag, the member
\* function bound to movementFunction, and what is written to std::cerr
BindMovement(movementFunctionStr) ==
  IF movementFunctionStr = "random"
  THEN [type |-> RANDOM, function |-> "movementFunctionRandom", err |-> <<>>]
  ELSE IF movementFunctionStr = "cyclic"
  THEN [type |-> CYCLIC, function |-> "movementFunctionCyclic", err |-> <<>>]
  ELSE [ type |-> RANDOM, function |-> "movementFunctionRandom",
         err |-> <<"Unrecognized movement function, defaulting to random">> ]

NodeCtor(kind, id, params, topo, pos) ==
  LET numRings == Find(params, "numRings", 0)
      myCol == Find(params, "j", -1)
      myRow == Find(params, "i", -1)
      rowCount == Find(params, "rowCount", -1)
      colCount == Find(params, "colCount", -1)
      smallPayload == Find(params, "smallPayload", -1)
      largePayload == Find(params, "largePayload", -1)
      largeEventFraction == Find(params, "largeEventFraction", <<-1, 1>>)
      myId == GlobalId(myRow, myCol, rowCount, colCount)
      eventDensity == Find(params, "eventDensity", <<0, 1>>)
      componentSize == Find(params, "componentSize", 0)
      numLinks == (2 * numRings + 1) * (2 * numRings + 1)
      links == setupLinks(topo, pos, numLinks)
      movementFunctionStr == Find(params, "movementFunction", "random")
      bound == BindMovement(movementFunctionStr)
  IN [ kind |-> kind,
       id |-> id,
       numRings |-> numRings,
       myCol |-> myCol,
       myRow |-> myRow,
       rowCount |-> rowCount,
       colCount |-> colCount,
       smallPayload |-> smallPayload,
       largePayload |-> largePayload,
       largeEventFraction |-> largeEventFraction,
       verbose |-> Find(params, "verbose", 0),
       myId |-> myId,
       timeToRun |-> Find(params, "timeToRun", 0),
       eventDensity |-> DensityOrLinks(eventDensity, links),
       additionalData |-> componentSize,
       recvCount |-> 0,
       rng |-> NewRng(id, myId),
       links |-> links,
       movementFunctionCounter |-> 0,
       movementFunctionType |-> bound.type,
       movementFunction |-> bound.function,
       multiplier |-> IF kind = "ExponentialNode"
                      THEN Find(params, "multiplier", 0) ELSE 0,
       min |-> IF kind = "UniformNode" THEN Find(params, "min", 0) ELSE 0,
       max |-> IF kind = "UniformNode" THEN Find(params, "max", 0) ELSE 0,
       okToEnd |-> FALSE,
       state |-> "constructed",
       sent |-> 0,
       now |-> 0,
       printed |-> <<>>,
       err |-> Warn(myCol = -1, "WARNING: Failed to get myCol")
               \o Warn(myRow = -1, "WARNING: Failed to get myRow")
               \o Warn(rowCount = -1, "WARNING: Failed to get rowCount")
               \o Warn(colCount = -1, "WARNING: Failed to get colCount")
               \o Warn(smallPayload = -1,
                       "WARNING: Failed to get small payload size")
               \o Warn(largePayload = -1,
                       "WARNING: Failed to get large payload size")
               \o Warn(largeEventFraction = <<-1, 1>>,
                       "WARNING: Failed to get large event fraction")
               \o bound.err,
       log |-> <<>> ]

\* The constructor of the earlier Node.cpp: the same parameters and
\* warnings, no movementFunction parameter (the selector is the random
\* one), and eventDensity kept as given
EarlierNodeCtor(kind, id, params, topo, pos) ==
  [NodeCtor(kind, id, [params EXCEPT !.movementFunction = "random"],
            topo, pos) EXCEPT
     !.eventDensity = Find(params, "eventDensity", <<0, 1>>)]

(***************************************************************************)
(* The neighbour selectors.  Each returns the node after the call and the  *)
(* index it returned.                                                      *)
(***************************************************************************)
\* a selector that also steps the cyclic counter
movementFunctionRandomStepping(nd) ==
  LET random_val == RngNext(nd.rng)
      ret == random_val % Len(nd.links)
  IN [ node |-> Logged(Logged([nd EXCEPT !.rng = random_val,
                                         !.movementFunctionCounter =
                                            (@ + 1) % Len(nd.links)],
                              <<"uint32", random_val, 0, 0>>),
                       <<"select", ret, 0, 0>>),
       ret |-> ret ]

movementFunctionRandom(nd) ==
  LET random_val == RngNext(nd.rng)
      ret == random_val % Len(nd.links)
  IN [ node |-> Logged(Logged([nd EXCEPT !.rng = random_val],
                              <<"uint32", random_val, 0, 0>>),
                       <<"select", ret, 0, 0>>),
       ret |-> ret ]

\* a selector that never advances
movementFunctionCyclicStuck(nd) ==
  LET next == nd.movementFunctionCounter
  IN [ node |-> Logged(nd, <<"select", next, 0, 0>>), ret |-> next ]

\* a selector that returns the advanced counter
movementFunctionCyclicAdvanced(nd) ==
  LET next == (nd.movementFunctionCounter + 1) % Len(nd.links)
  IN [ node |-> Logged([nd EXCEPT !.movementFunctionCounter = next],
                       <<"select", next, 0, 0>>),
       ret |-> next ]

\* a counter that is stepped without the wrap-around
movementFunctionCyclicUnwrapped(nd) ==
  LET ret == nd.movementFunctionCounter % Len(nd.links)
  IN [ node |-> Logged([nd EXCEPT !.movementFunctionCounter = @ + 1],
                       <<"select", ret, 0, 0>>),
       ret |-> ret ]

\* a counter that goes round the other way
movementFunctionCyclicBackward(nd) ==
  LET next == nd.movementFunctionCounter
  IN [ node |-> Logged([nd EXCEPT !.movementFunctionCounter =
                                     (@ + Len(nd.links) - 1) % Len(nd.links)],
                       <<"select", next, 0, 0>>),
       ret |-> next ]

movementFunctionCyclic(nd) ==
  LET next == nd.movementFunctionCounter
  IN [ node |-> Logged([nd EXCEPT !.movementFunctionCounter =
                                     (@ + 1) % Len(nd.links)],
                       <<"select", next, 0, 0>>),
       ret |-> next ]

\* a call through the std::function member movementFunction
movementFunction(nd) ==
  IF nd.movementFunction = "movementFunctionCyclic"
  THEN movementFunctionCyclic(nd)
  ELSE movementFunctionRandom(nd)

(***************************************************************************)
(* recipient = movementFunction();                                         *)
(* while (links.at(recipient) == nullptr) recipient = movementFunction();  *)
(* The state the loop depends on (the cyclic counter, or the state of the  *)
(* generator) returns to its value after one period; a loop that has not   *)
(* found a present slot within one period never does, and the caller       *)
(* spins forever: found is FALSE then (as it is when the std::function is  *)
(* empty and the call throws).                                             *)
(***************************************************************************)
SelectorPeriod(nd) ==
  IF nd.movementFunction = "movementFunctionCyclic"
  THEN Len(nd.links) ELSE RngMod

\* a caller that sends on the first slot selected, present or not
RedrawOnce(nd, calls) ==
  LET r == movementFunction(nd)
  IN [node |-> r.node, ret |-> r.ret, found |-> TRUE, calls |-> calls + 1]

RECURSIVE RedrawLoop(_, _)
RedrawLoop(nd, calls) ==
  LET r == movementFunction(nd)
  IN IF nd.movementFunction \notin
          {"movementFunctionRandom", "movementFunctionCyclic"}
     THEN [node |-> nd, ret |-> 0, found |-> FALSE, calls |-> calls]
     ELSE IF nd.links[r.ret + 1] # NoLink
     THEN [node |-> r.node, ret |-> r.ret, found |-> TRUE, calls |-> calls + 1]
     ELSE IF calls + 1 >= SelectorPeriod(nd)
          THEN [node |-> r.node, ret |-> r.ret, found |-> FALSE,
                calls |-> calls + 1]
          ELSE RedrawLoop(r.node, calls + 1)

SelectRecipient(nd) == RedrawLoop(nd, 0)

(***************************************************************************)
(* Node::createEvent: one nextUniform() draw decides the payload size.     *)
(***************************************************************************)
\* a factory that compares with <=
createEventInclusive(nd) ==
  LET random_val == RngNext(nd.rng)
      size == IF ~UniformLess(random_val, nd.largeEventFraction)
                 /\ random_val * nd.largeEventFraction[2]
                      # nd.largeEventFraction[1] * RngMod
              THEN nd.smallPayload ELSE nd.largePayload
  IN [ node |-> Logged(Logged([nd EXCEPT !.rng = random_val],
                              <<"uniform", random_val, 0, 0>>),
                       <<(IF size < 0 THEN "length_error" ELSE "payload"),
                         size, 0, 0>>),
       size |-> size ]

\* a factory that keeps the size it chose in smallPayload
createEventStoringSize(nd) ==
  LET random_val == RngNext(nd.rng)
      size == IF UniformLess(random_val, nd.largeEventFraction)
              THEN nd.largePayload ELSE nd.smallPayload
  IN [ node |-> Logged(Logged([nd EXCEPT !.rng = random_val,
                                         !.smallPayload = size],
                              <<"uniform", random_val, 0, 0>>),
                       <<(IF size < 0 THEN "length_error" ELSE "payload"),
                         size, 0, 0>>),
       size |-> size ]

\* std::string str(size, 'a') converts size to size_t: a negative size is
\* more than max_size() and the constructor throws std::length_error
createEvent(nd) ==
  LET random_val == RngNext(nd.rng)
      size == IF UniformLess(random_val, nd.largeEventFraction)
              THEN nd.largePayload ELSE nd.smallPayload
  IN [ node |-> Logged(Logged([nd EXCEPT !.rng = random_val],
                              <<"uniform", random_val, 0, 0>>),
                       <<(IF size < 0 THEN "length_error" ELSE "payload"),
                         size, 0, 0>>),
       size |-> size ]

\* an exception or a signal that nothing handles ended the process in the
\* last call on the node
Crashed(nd) ==
  /\ nd.log # <<>>
  /\ nd.log[Len(nd.log)][1] \in {"length_error", "SIGFPE"}

(***************************************************************************)
(* timestepIncrementFunction of Node, ExponentialNode and UniformNode.     *)
(* LnMicro[k] is 10^6 * ln(k) rounded; -ln(word / RngMod) * 1000 is        *)
(* (LnMicro[RngMod] - LnMicro[word]) / 1000.  The result is converted to   *)
(* the unsigned SimTime_t by truncation.  -log(0) is +infinity, whose      *)
(* conversion is undefined: infConv is what the build makes of it.         *)
(***************************************************************************)
LnMicro ==
  << 0, 693147, 1098612, 1386294, 1609438, 1791759, 1945910, 2079442,
     2197225, 2302585, 2397895, 2484907, 2564949, 2639057, 2708050, 2772589,
     2833213, 2890372, 2944439, 2995732, 3044522, 3091042, 3135494, 3178054,
     3218876, 3258097, 3295837, 3332205, 3367296, 3401197, 3433987, 3465736,
     3496508, 3526361, 3555348, 3583519, 3610918, 3637586, 3663562, 3688879,
     3713572, 3737670, 3761200, 3784190, 3806662, 3828641, 3850148, 3871201,
     3891820, 3912023, 3931826, 3951244, 3970292, 3988984, 4007333, 4025352,
     4043051, 4060443, 4077537, 4094345, 4110874, 4127134, 4143135, 4158883 >>

\* a constant delay that takes a draw all the same
NodeTimestepIncrementDrawing(nd) ==
  [ node |-> Logged(Logged([nd EXCEPT !.rng = RngNext(nd.rng)],
                           <<"uniform", RngNext(nd.rng), 0, 0>>),
                    <<"delay", 0, 0, 0>>),
    delay |-> 0 ]

NodeTimestepIncrement(nd) ==
  [node |-> Logged(nd, <<"delay", 0, 0, 0>>), delay |-> 0]

ExponentialTimestepIncrement(nd, infConv) ==
  LET word == RngNext(nd.rng)
      delay == IF word = 0
               THEN (IF nd.multiplier = 0 THEN 0 ELSE infConv)
               ELSE ((LnMicro[RngMod] - LnMicro[word]) * nd.multiplier)
                      \div 1000
  IN [ node |-> Logged(Logged([nd EXCEPT !.rng = word],
                              <<"uniform", word, 0, 0>>),
                       <<"delay", delay, 0, 0>>),
       delay |-> delay ]

\* a delay that forgets min
UniformTimestepIncrementFromZero(nd, infConv) ==
  LET word == RngNext(nd.rng)
      delay == (1000 * (nd.max - nd.min) * word) \div RngMod
  IN [ node |-> Logged(Logged([nd EXCEPT !.rng = word],
                              <<"uniform", word, 0, 0>>),
                       <<"delay", delay, 0, 0>>),
       delay |-> delay ]

\* increment * 1000 is truncated toward zero; the conversion of a value
\* of -1 or less to the unsigned SimTime_t is undefined, as that of +infinity
UniformTimestepIncrement(nd, infConv) ==
  LET word == RngNext(nd.rng)
      scaled == 1000 * (nd.min * RngMod + (nd.max - nd.min) * word)
      delay == IF scaled >= 0 THEN scaled \div RngMod
               ELSE IF scaled > 0 - RngMod THEN 0
               ELSE infConv
  IN [ node |-> Logged(Logged([nd EXCEPT !.rng = word],
                              <<"uniform", word, 0, 0>>),
                       <<"delay", delay, 0, 0>>),
       delay |-> delay ]

\* the virtual call
timestepIncrementFunction(nd, infConv) ==
  CASE nd.kind = "ExponentialNode" -> ExponentialTimestepIncrement(nd, infConv)
    [] nd.kind = "UniformNode" -> UniformTimestepIncrement(nd, infConv)
    [] OTHER -> NodeTimestepIncrement(nd)

(***************************************************************************)
(* Node::setup.  counter is the double of the code, kept as a rational.    *)
(* The result carries the events sent (slot, added delay, size) and hung,  *)
(* which is TRUE when a re-draw loop never ends.                           *)
(***************************************************************************)
\* the % of C++ (the sign of the result is the sign of a), for b > 0
CRem(a, b) == IF a >= 0 THEN a % b ELSE 0 - ((0 - a) % b)

\* createEvent, the re-draw loop and links.at(recipient)->send(ev)
SetupSend(nd) ==
  LET ev == createEvent(nd)
      sel == SelectRecipient(ev.node)
  IN IF Crashed(ev.node)
     THEN [node |-> ev.node, hung |-> FALSE, sends |-> <<>>]
     ELSE [ node |-> Logged([sel.node EXCEPT !.sent = @ + 1],
                            <<"send", sel.ret, 0, ev.size>>),
            hung |-> ~sel.found,
            sends |-> <<[link |-> sel.ret, delay |-> 0, size |-> ev.size]>> ]

RECURSIVE SetupWhile(_, _, _)
SetupWhile(nd, counter, sends) ==
  IF counter[1] >= counter[2]
  THEN LET s == SetupSend(nd)
       IN IF s.hung
          THEN [node |-> nd, counter |-> counter, sends |-> sends,
                hung |-> TRUE]
          ELSE IF Crashed(s.node)
          THEN [node |-> s.node, counter |-> counter, sends |-> sends,
                hung |-> FALSE]
          ELSE SetupWhile(s.node, <<counter[1] - counter[2], counter[2]>>,
                          sends \o s.sends)
  ELSE [node |-> nd, counter |-> counter, sends |-> sends, hung |-> FALSE]

\* truncation toward zero of a / b, for b > 0
Trunc(a, b) == IF a >= 0 THEN a \div b ELSE 0 - ((0 - a) \div b)

\* the largest int
IntMax == 2 ^ (IntBits - 1) - 1

\* int period = 1.0 / counter: the quotient truncated toward zero.  The
\* conversion is undefined when the truncated value is not an int (1.0 / 0.0
\* is +infinity; a quotient beyond the range of int), and then the build
\* decides what period holds: the builds that return 0 for an out-of-range
\* time return the smallest int here, the saturating ones the largest
PeriodOf(counter, infConv) ==
  LET q == IF counter[1] = 0 THEN 0
           ELSE IF counter[1] > 0 THEN Trunc(counter[2], counter[1])
           ELSE Trunc(0 - counter[2], 0 - counter[1])
  IN IF counter[1] = 0 \/ q > IntMax \/ q < 0 - IntMax - 1
     THEN IF infConv = 0 THEN 0 - IntMax - 1 ELSE IntMax
     ELSE q

\* if (myId % period == 0) and the send it guards; period is logged with
\* the counter it was computed from; myId % 0 raises SIGFPE
SetupExtra(w, period) ==
  LET nd == Logged(w.node, <<"period", period, w.counter[1], w.counter[2]>>)
  IN IF period = 0
     THEN [ node |-> Logged(nd, <<"SIGFPE", 0, 0, 0>>), sends |-> w.sends,
            hung |-> FALSE ]
     ELSE IF CRem(nd.myId, IF period < 0 THEN 0 - period ELSE period) = 0
     THEN LET s == SetupSend(nd)
          IN IF s.hung
             THEN [node |-> nd, sends |-> w.sends, hung |-> TRUE]
             ELSE [node |-> s.node, sends |-> w.sends \o s.sends,
                   hung |-> FALSE]
     ELSE [node |-> nd, sends |-> w.sends, hung |-> FALSE]

setup(nd0, infConv) ==
  LET nd == Logged(nd0, <<"setup", 0, 0, 0>>)
      w == SetupWhile(nd, nd.eventDensity, <<>>)
  IN IF w.hung \/ Crashed(w.node) \/ w.counter[1] <= 0
     THEN [node |-> w.node, sends |-> w.sends, hung |-> w.hung]
     ELSE SetupExtra(w, PeriodOf(w.counter, infConv))

(***************************************************************************)
(* Node::handleEvent: the delivered event is deleted unread; recvCount,    *)
(* the re-draw loop, the delay, the payload, one send.  psFactor is the    *)
(* factor of the static TimeConverter ps ("1ps").                          *)
(***************************************************************************)
\* a handler that forgets the count
\* setup() of the earlier Node.cpp: no return between the loop and the
\* computation of the period
setupEarlier(nd0, infConv) ==
  LET nd == Logged(nd0, <<"setup", 0, 0, 0>>)
      w == SetupWhile(nd, nd.eventDensity, <<>>)
  IN IF w.hung \/ Crashed(w.node)
     THEN [node |-> w.node, sends |-> w.sends, hung |-> w.hung]
     ELSE SetupExtra(w, PeriodOf(w.counter, infConv))

CountReceivedNever(nd) == nd

\* recvCount += 1
CountReceived(nd) == [nd EXCEPT !.recvCount = @ + 1]

\* a handler that sends without the delay it was given
handleEventUndelayed(nd0, infConv, psFactor) ==
  LET nd == Logged(CountReceived(nd0), <<"recv", nd0.recvCount + 1, 0, 0>>)
      sel == SelectRecipient(nd)
      dl == timestepIncrementFunction(sel.node, infConv)
      ev == createEvent(dl.node)
  IN IF ~sel.found
     THEN [node |-> nd, sends |-> <<>>, hung |-> TRUE]
     ELSE IF Crashed(ev.node)
     THEN [node |-> ev.node, sends |-> <<>>, hung |-> FALSE]
     ELSE [ node |-> Logged([ev.node EXCEPT !.sent = @ + 1],
                            <<"send", sel.ret, 0, ev.size>>),
            sends |-> <<[link |-> sel.ret, delay |-> 0, size |-> ev.size]>>,
            hung |-> FALSE ]

\* a handler that makes the payload before it asks for the delay
handleEventPayloadFirst(nd0, infConv, psFactor) ==
  LET nd == Logged(CountReceived(nd0), <<"recv", nd0.recvCount + 1, 0, 0>>)
      sel == SelectRecipient(nd)
      ev == createEvent(sel.node)
      dl == timestepIncrementFunction(ev.node, infConv)
  IN IF ~sel.found
     THEN [node |-> nd, sends |-> <<>>, hung |-> TRUE]
     ELSE IF Crashed(ev.node)
     THEN [node |-> ev.node, sends |-> <<>>, hung |-> FALSE]
     ELSE [ node |-> Logged([dl.node EXCEPT !.sent = @ + 1],
                            <<"send", sel.ret, dl.delay * psFactor, ev.size>>),
            sends |-> <<[link |-> sel.ret, delay |-> dl.delay * psFactor,
                         size |-> ev.size]>>,
            hung |-> FALSE ]

handleEvent(nd0, infConv, psFactor) ==
  LET nd == Logged(CountReceived(nd0), <<"recv", nd0.recvCount + 1, 0, 0>>)
      sel == SelectRecipient(nd)
      dl == timestepIncrementFunction(sel.node, infConv)
      ev == createEvent(dl.node)
  IN IF ~sel.found
     THEN [node |-> nd, sends |-> <<>>, hung |-> TRUE]
     ELSE IF Crashed(ev.node)
     THEN [node |-> ev.node, sends |-> <<>>, hung |-> FALSE]
     ELSE [ node |-> Logged([ev.node EXCEPT !.sent = @ + 1],
                            <<"send", sel.ret, dl.delay * psFactor, ev.size>>),
            sends |-> <<[link |-> sel.ret, delay |-> dl.delay * psFactor,
                         size |-> ev.size]>>,
            hung |-> FALSE ]

(***************************************************************************)
(* Node::tick and Node::finish.                                            *)
(***************************************************************************)
\* a clock handler that also retires the node
tickAndStop(nd) ==
  Logged([nd EXCEPT !.okToEnd = TRUE, !.state = "finished"],
         <<"tick", 0, 0, 0>>)

\* a clock handler that rewinds the cyclic counter
tickRewinding(nd) ==
  Logged([nd EXCEPT !.okToEnd = TRUE, !.movementFunctionCounter = 0],
         <<"tick", 0, 0, 0>>)

\* a clock handler that leaves the veto in place
tickKeepingVeto(nd) == Logged(nd, <<"tick", 0, 0, 0>>)

tick(nd) == Logged([nd EXCEPT !.okToEnd = TRUE], <<"tick", 0, 0, 0>>)

\* a teardown that prints whatever verbose is
finishLoud(nd) ==
  LET msg == << ToString(nd.myRow), ",", ToString(nd.myCol), " : ",
                ToString(Len(nd.links)), ",", ToString(nd.recvCount), "\n" >>
  IN [nd EXCEPT !.state = "finished", !.printed = <<msg>>]

\* msg is the line written to std::cerr, piece by piece
finish(nd) ==
  LET msg == << ToString(nd.myRow), ",", ToString(nd.myCol), " : ",
                ToString(Len(nd.links)), ",", ToString(nd.recvCount), "\n" >>
  IN [nd EXCEPT !.state = "finished",
                !.printed = IF nd.verbose # 0 THEN <<msg>> ELSE <<>>]

\* finish() of the earlier Node.cpp
finishEarlier(nd) ==
  LET msg == << ToString(nd.myRow), ",", ToString(nd.myCol), ":",
                ToString(nd.recvCount), "\n" >>
  IN [nd EXCEPT !.state = "finished",
                !.printed = IF nd.verbose # 0 THEN <<msg>> ELSE <<>>]

(***************************************************************************)
(* serialize_order.  SST_SER(x) appends x to the buffer in pack mode and   *)
(* reads the next value of the buffer into x in unpack mode, so one list   *)
(* of fields, in the order of the code, describes both directions.  The    *)
(* first two fields stand for SST::Component::serialize_order.             *)
(***************************************************************************)
ComponentFields == <<"id", "okToEnd">>

\* the field list of the earlier variant of the file, which serialized
\* neither the policy tag nor the cyclic counter
NodeFieldsWithoutMovement ==
  << "myId", "myRow", "myCol", "verbose", "numRings", "links", "rowCount",
     "colCount", "eventDensity", "timeToRun", "smallPayload", "largePayload",
     "largeEventFraction", "recvCount", "rng" >>

NodeFields ==
  << "myId", "myRow", "myCol", "verbose", "numRings", "links", "rowCount",
     "colCount", "eventDensity", "timeToRun", "smallPayload", "largePayload",
     "largeEventFraction", "recvCount", "movementFunctionType",
     "movementFunctionCounter", "rng" >>

RECURSIVE SerFields(_, _, _)
SerFields(nd, ser, fields) ==
  IF fields = <<>> THEN [node |-> nd, ser |-> ser]
  ELSE LET f == Head(fields)
       IN IF ser.mode = "PACK"
          THEN SerFields(nd, [ser EXCEPT !.buf = Append(@, nd[f])],
                         Tail(fields))
          ELSE SerFields([nd EXCEPT ![f] = Head(ser.buf)],
                         [ser EXCEPT !.buf = Tail(@)], Tail(fields))

\* an unrecognized tag bound to the cyclic selector
RebindMovementElseCyclic(nd) ==
  IF nd.movementFunctionType = RANDOM
  THEN [nd EXCEPT !.movementFunction = "movementFunctionRandom"]
  ELSE [nd EXCEPT !.movementFunction = "movementFunctionCyclic"]

\* a restore that starts the cyclic order again
RebindMovementRewinding(nd) ==
  IF nd.movementFunctionType = RANDOM
  THEN [nd EXCEPT !.movementFunction = "movementFunctionRandom"]
  ELSE IF nd.movementFunctionType = CYCLIC
  THEN [nd EXCEPT !.movementFunction = "movementFunctionCyclic",
                  !.movementFunctionCounter = 0]
  ELSE [nd EXCEPT
          !.movementFunction = "movementFunctionRandom",
          !.err = Append(@, "Unrecognized movement function type during deserialization, defaulting to random")]

\* a restore that also sets an unrecognized tag to RANDOM
RebindMovementNormalizing(nd) ==
  IF nd.movementFunctionType = RANDOM
  THEN [nd EXCEPT !.movementFunction = "movementFunctionRandom"]
  ELSE IF nd.movementFunctionType = CYCLIC
  THEN [nd EXCEPT !.movementFunction = "movementFunctionCyclic"]
  ELSE [nd EXCEPT
          !.movementFunction = "movementFunctionRandom",
          !.movementFunctionType = RANDOM,
          !.err = Append(@, "Unrecognized movement function type during deserialization, defaulting to random")]

\* the restore of the movementFunction pointer when unpacking
RebindMovement(nd) ==
  IF nd.movementFunctionType = RANDOM
  THEN [nd EXCEPT !.movementFunction = "movementFunctionRandom"]
  ELSE IF nd.movementFunctionType = CYCLIC
  THEN [nd EXCEPT !.movementFunction = "movementFunctionCyclic"]
  ELSE [nd EXCEPT
          !.movementFunction = "movementFunctionRandom",
          !.err = Append(@, "Unrecognized movement function type during deserialization, defaulting to random")]

\* a serializer that takes a word of the generator on its way
NodeSerializeOrderDrawing(nd, ser) ==
  LET s == SerFields([nd EXCEPT !.rng = RngNext(@)], ser,
                     ComponentFields \o NodeFields)
  IN IF ser.mode = "UNPACK"
     THEN [node |-> RebindMovement(s.node), ser |-> s.ser]
     ELSE s

NodeSerializeOrder(nd, ser) ==
  LET s == SerFields(nd, ser, ComponentFields \o NodeFields)
  IN IF ser.mode = "UNPACK"
     THEN [node |-> RebindMovement(s.node), ser |-> s.ser]
     ELSE s

ExponentialSerializeOrder(nd, ser) ==
  LET s == NodeSerializeOrder(nd, ser)
  IN SerFields(s.node, s.ser, <<"multiplier">>)

UniformSerializeOrder(nd, ser) ==
  LET s == NodeSerializeOrder(nd, ser)
  IN SerFields(s.node, s.ser, <<"min", "max">>)

\* the virtual call
serialize_order(nd, ser) ==
  CASE nd.kind = "ExponentialNode" -> ExponentialSerializeOrder(nd, ser)
    [] nd.kind = "UniformNode" -> UniformSerializeOrder(nd, ser)
    [] OTHER -> NodeSerializeOrder(nd, ser)

(***************************************************************************)
(* The object the checkpoint loader builds before it unpacks into it: the  *)
(* class named in the checkpoint, made by the default constructor Node()   *)
(* (Node.h), with no field set and an empty std::function.                 *)
(***************************************************************************)
DefaultNode(kind) ==
  [ kind |-> kind, id |-> 0, numRings |-> 0, myCol |-> 0, myRow |-> 0,
    rowCount |-> 0, colCount |-> 0, smallPayload |-> 0, largePayload |-> 0,
    largeEventFraction |-> <<0, 1>>, verbose |-> 0, myId |-> 0,
    timeToRun |-> 0, eventDensity |-> <<0, 1>>, additionalData |-> 0,
    recvCount |-> 0, rng |-> 0, links |-> <<>>,
    movementFunctionCounter |-> 0, movementFunctionType |-> RANDOM,
    movementFunction |-> "", multiplier |-> 0, min |-> 0, max |-> 0,
    okToEnd |-> FALSE, state |-> "ready", sent |-> 0, now |-> 0,
    printed |-> <<>>,
    err |-> <<>>, log |-> <<>> ]

\* a policy tag that is neither RANDOM nor CYCLIC
UnknownTag == 2

\* the place of a field in a list of fields (0 when it is not there)
FieldIndex(fields, f) ==
  IF \E i \in 1..Len(fields) : fields[i] = f
  THEN CHOOSE i \in 1..Len(fields) : fields[i] = f
  ELSE 0

\* the checkpoint file of a node whose policy has the tag given
Retagged(buf, tag) ==
  LET i == FieldIndex(ComponentFields \o NodeFields, "movementFunctionType")
  IN IF i = 0 THEN buf ELSE [buf EXCEPT ![i] = tag]

Pack(nd) == serialize_order(nd, [mode |-> "PACK", buf |-> <<>>]).ser.buf

Unpack(kind, buf) ==
  serialize_order(DefaultNode(kind), [mode |-> "UNPACK", buf |-> buf]).node

(***************************************************************************)
(* Configurations.  A configuration is the topology script's view of one   *)
(* run: the grid, the parameters given to every component, the component   *)
(* class, the order in which component ids are handed out, and what the    *)
(* build makes of the conversion of +infinity to SimTime_t.                *)
(***************************************************************************)
AllKeys ==
  { "numRings", "i", "j", "rowCount", "colCount", "smallPayload",
    "largePayload", "largeEventFraction", "verbose", "timeToRun",
    "eventDensity", "componentSize", "movementFunction", "multiplier",
    "min", "max" }

BaseCfg ==
  [ rows |-> 1, cols |-> 2, numRings |-> 1, selfLinks |-> TRUE,
    linkDelay |-> 1000, nodeType |-> "Node", hosting |-> "rowmajor",
    infConv |-> 0, given |-> AllKeys, timeToRun |-> 2000,
    eventDensity |-> <<1, 1>>, smallPayload |-> 8, largePayload |-> 1024,
    largeEventFraction |-> <<1, 2>>, verbose |-> 1, componentSize |-> 0,
    movementFunction |-> "random", multiplier |-> 1, min |-> 0, max |-> 1,
    checkpointAt |-> 0, foreign |-> FALSE, variant |-> "phold" ]

NodeTypes == {"Node", "ExponentialNode", "UniformNode"}
MovementNames == {"random", "cyclic", "spiral"}

\* grids, rings, self links, policies and classes with one event per node
Grids == { g \in (1..MaxNodes) \X (1..MaxNodes) : g[1] * g[2] <= MaxNodes }

TopologyCfgs ==
  { [BaseCfg EXCEPT !.rows = g[1], !.cols = g[2], !.numRings = k,
                    !.selfLinks = sl, !.movementFunction = mf,
                    !.nodeType = nt] :
      g \in Grids, k \in 0..MaxRings,
      sl \in BOOLEAN, mf \in MovementNames, nt \in NodeTypes }

\* initial loads, payload fractions and run lengths on the 1 x 2 grid
Densities ==
  { <<-1, 1>>, <<0, 1>>, <<1, 3>>, <<1, 2>>, <<3, 2>>, <<2, 1>>, <<5, 2>> }
Fractions == { <<0, 1>>, <<1, 10>>, <<1, 2>>, <<1, 1>> }

LoadCfgs ==
  { [BaseCfg EXCEPT !.eventDensity = d, !.largeEventFraction = f,
                    !.movementFunction = mf, !.verbose = v] :
      d \in Densities, f \in Fractions, mf \in {"random", "cyclic"},
      v \in {0, 1} }

\* component ids, run length and the build
HostCfgs ==
  { [BaseCfg EXCEPT !.hosting = h, !.nodeType = nt, !.infConv = ic,
                    !.timeToRun = t, !.movementFunction = mf] :
      h \in {"rowmajor", "reversed"}, nt \in NodeTypes,
      ic \in {0, HugeDelay}, t \in {2000, 3000},
      mf \in {"random", "cyclic"} }

\* checkpoints at a simulated time, for every policy and class
CheckpointCfgs ==
  { [BaseCfg EXCEPT !.checkpointAt = at, !.nodeType = nt,
                    !.movementFunction = mf, !.eventDensity = d,
                    !.timeToRun = 3000] :
      at \in {1000, 1500, 2000}, nt \in NodeTypes, mf \in MovementNames,
      d \in { <<1, 1>>, <<2, 1>> } }

\* a 1 x 1 grid without its self link: every slot of links is nullptr
IsolatedCfgs ==
  { [BaseCfg EXCEPT !.rows = 1, !.cols = 1, !.selfLinks = FALSE,
                    !.numRings = k, !.eventDensity = d,
                    !.movementFunction = mf] :
      k \in 0..MaxRings, d \in Densities, mf \in {"random", "cyclic"} }

\* the parameters of the delay models
DelayCfgs ==
  { [BaseCfg EXCEPT !.nodeType = "UniformNode", !.min = mm[1], !.max = mm[2],
                    !.infConv = ic, !.timeToRun = 3000] :
      mm \in { <<0, 0>>, <<0, 2>>, <<1, 1>>, <<1, 3>>, <<-1, 1>>, <<-2, -1>> },
      ic \in {0, HugeDelay} }
  \cup
  { [BaseCfg EXCEPT !.nodeType = "ExponentialNode", !.multiplier = m,
                    !.infConv = ic, !.timeToRun = 3000] :
      m \in {0, 2}, ic \in {0, HugeDelay} }

\* restores from a checkpoint file written by a build with a third policy
ForeignCfgs ==
  { [BaseCfg EXCEPT !.checkpointAt = 1000, !.foreign = TRUE,
                    !.nodeType = nt, !.movementFunction = mf,
                    !.timeToRun = 3000] :
      nt \in NodeTypes, mf \in {"random", "cyclic"} }

\* the library built from the earlier Node.cpp
VariantCfgs ==
  { [BaseCfg EXCEPT !.variant = "earlier", !.eventDensity = d,
                    !.infConv = ic, !.verbose = v] :
      d \in Densities \cup { <<-2, 1>> }, ic \in {0, HugeDelay},
      v \in {0, 1} }

\* loads so sparse that 1 / counter reaches the end of the range of int
SparseCfgs ==
  { [BaseCfg EXCEPT !.variant = va, !.eventDensity = <<1, IntMax + k>>,
                    !.infConv = ic] :
      va \in {"phold", "earlier"}, k \in {0, 1}, ic \in {0, HugeDelay} }

\* scripts that leave out one of the position and size parameters
MissingCfgs ==
  { [BaseCfg EXCEPT !.given = AllKeys \ {k}, !.movementFunction = mf] :
      k \in { "i", "j", "rowCount", "colCount", "smallPayload",
               "largePayload", "largeEventFraction" },
      mf \in {"random", "cyclic"} }

Configs ==
  TopologyCfgs \cup LoadCfgs \cup HostCfgs \cup CheckpointCfgs
    \cup IsolatedCfgs \cup DelayCfgs \cup ForeignCfgs \cup VariantCfgs
    \cup SparseCfgs \cup MissingCfgs

NodeCount(c) == c.rows * c.cols
Nodes == 0..(NodeCount(cfg) - 1)

\* SST hands out component ids in the order the script creates components
ComponentId(c, n) ==
  IF c.hosting = "reversed" THEN NodeCount(c) - 1 - n ELSE n

ParamsOf(c, n) ==
  [ given |-> c.given, numRings |-> c.numRings,
    i |-> n \div c.cols, j |-> n % c.cols,
    rowCount |-> c.rows, colCount |-> c.cols,
    smallPayload |-> c.smallPayload, largePayload |-> c.largePayload,
    largeEventFraction |-> c.largeEventFraction, verbose |-> c.verbose,
    timeToRun |-> c.timeToRun, eventDensity |-> c.eventDensity,
    componentSize |-> c.componentSize,
    movementFunction |-> c.movementFunction, multiplier |-> c.multiplier,
    min |-> c.min, max |-> c.max ]

TopoOf(c) ==
  [ rowCount |-> c.rows, colCount |-> c.cols, numRings |-> c.numRings,
    selfLinks |-> c.selfLinks ]

\* the element library of the configuration makes the component and
\* supplies its setup() and finish()
Construct(c, n) ==
  IF c.variant = "earlier"
  THEN EarlierNodeCtor(c.nodeType, ComponentId(c, n), ParamsOf(c, n),
                       TopoOf(c), n)
  ELSE NodeCtor(c.nodeType, ComponentId(c, n), ParamsOf(c, n), TopoOf(c), n)

CallSetup(c, nd) ==
  IF c.variant = "earlier"
  THEN setupEarlier(nd, c.infConv)
  ELSE setup(nd, c.infConv)

CallFinish(c, nd) ==
  IF c.variant = "earlier" THEN finishEarlier(nd) ELSE finish(nd)

Init ==
  /\ cfg \in Configs
  /\ node = [n \in 0..(NodeCount(cfg) - 1) |-> Construct(cfg, n)]
  /\ inflight = {}
  /\ ps = 0
  /\ snapshot = NoSnapshot
  /\ twin = NoTwin

(***************************************************************************)
(* The kernel.  An event in flight is [src, seq, dst, time, size]; src and *)
(* seq (the number of the send at its sender) tell equal events apart.     *)
(***************************************************************************)
\* sends that the kernel cannot tell apart
EmittedAlike(n, before, sends, now) ==
  { [ src |-> n, seq |-> before.sent + 1,
      dst |-> before.links[sends[k].link + 1],
      time |-> now + cfg.linkDelay + sends[k].delay,
      size |-> 0 ] : k \in 1..Len(sends) }

\* the events that the sends of node n, made at time now, put in flight
Emitted(n, before, sends, now) ==
  { [ src |-> n, seq |-> before.sent + k,
      dst |-> before.links[sends[k].link + 1],
      time |-> now + cfg.linkDelay + sends[k].delay,
      size |-> sends[k].size ] : k \in 1..Len(sends) }

Pending(n) == { e \in inflight : e.dst = n }

Before(e, f) ==
  \/ e.time < f.time
  \/ e.time = f.time /\ e.src < f.src
  \/ e.time = f.time /\ e.src = f.src /\ e.seq <= f.seq

NextEvent(n) == CHOOSE e \in Pending(n) : \A f \in Pending(n) : Before(e, f)

AllReady == \A n \in Nodes : node[n].state = "ready"

\* no event that is or will be addressed to n has a time below t
NothingBefore(n, t) ==
  \A e \in inflight :
    IF e.dst = n THEN e.time >= t ELSE e.time + cfg.linkDelay >= t

\* a static that every call changes
TimeConverterPsPerCall(psv) == psv + 1

\* static auto ps = getTimeConverter("1ps"): set by the first call of
\* handleEvent in the process and shared by every node; 0 is "not yet set"
TimeConverterPs(psv) == IF psv = 0 THEN 1 ELSE psv

\* where a call leaves the node: in a loop that never ends, dead with the
\* process, or ready for the next call
StateAfter(r) ==
  IF r.hung THEN "hung" ELSE IF Crashed(r.node) THEN "crashed" ELSE "ready"

\* the kernel calls setup() of every component before the run loop
Setup(n) ==
  /\ node[n].state = "constructed"
  /\ \A m \in Nodes : node[m].state \notin {"hung", "crashed"}
  /\ LET r == CallSetup(cfg, node[n])
     IN /\ node' = [node EXCEPT ![n] =
                      [r.node EXCEPT !.state = StateAfter(r)]]
        /\ inflight' = inflight \cup Emitted(n, node[n], r.sends, 0)
  /\ UNCHANGED <<cfg, ps, snapshot, twin>>

\* the kernel delivers to n its earliest event once nothing earlier can
\* still arrive; events of time timeToRun follow the clock handler
HandleEvent(n) ==
  /\ AllReady
  /\ Pending(n) # {}
  /\ LET e == NextEvent(n)
         psNow == TimeConverterPs(ps)
         r == handleEvent(node[n], cfg.infConv, psNow)
     IN /\ e.time <= cfg.timeToRun
        /\ e.time < cfg.timeToRun \/ node[n].okToEnd
        /\ \A f \in inflight : f.dst # n => f.time + cfg.linkDelay >= e.time
        /\ ps' = psNow
        /\ node' = [node EXCEPT ![n] =
                      [r.node EXCEPT !.state = StateAfter(r),
                                     !.now = e.time]]
        /\ inflight' = (inflight \ {e})
                          \cup Emitted(n, node[n], r.sends, e.time)
  /\ UNCHANGED <<cfg, snapshot, twin>>

\* the clock handler, registered with period timeToRun
Tick(n) ==
  /\ AllReady
  /\ ~node[n].okToEnd
  /\ NothingBefore(n, cfg.timeToRun)
  /\ node' = [node EXCEPT ![n] = tick(node[n])]
  /\ UNCHANGED <<cfg, inflight, ps, snapshot, twin>>

\* teardown: every primary component has voted and the events of the last
\* instant are handled
Finish(n) ==
  /\ node[n].state = "ready"
  /\ \A m \in Nodes : node[m].okToEnd /\ node[m].state \in {"ready", "finished"}
  /\ \A e \in inflight : e.time > cfg.timeToRun
  /\ node' = [node EXCEPT ![n] = CallFinish(cfg, node[n])]
  /\ UNCHANGED <<cfg, inflight, ps, snapshot, twin>>

(***************************************************************************)
(* Checkpoint and restore of one component.  The kernel checkpoints at the *)
(* simulated time checkpointAt (--checkpoint-sim-period), when the events  *)
(* before that time are handled: Checkpoint packs node n; Restore builds   *)
(* the twin from the packed bytes (or, in a foreign configuration, from    *)
(* the same bytes under a policy tag this build does not know); the twin   *)
(* is then fed the events node n has been fed since the checkpoint.  now   *)
(* is the time of the last event the kernel delivered to the node.         *)
(***************************************************************************)
Checkpoint(n) ==
  /\ AllReady
  /\ ~snapshot.taken
  /\ cfg.checkpointAt > 0
  /\ node[n].now < cfg.checkpointAt
  /\ NothingBefore(n, cfg.checkpointAt)
  /\ LET s == serialize_order(node[n], [mode |-> "PACK", buf |-> <<>>])
     IN /\ snapshot' = [ taken |-> TRUE, of |-> n, kind |-> node[n].kind,
                         buf |-> s.ser.buf, logLen |-> Len(node[n].log),
                         sent |-> node[n].sent ]
        /\ node' = [node EXCEPT ![n] = s.node]
  /\ UNCHANGED <<cfg, inflight, ps, twin>>

Restore ==
  /\ snapshot.taken
  /\ ~twin.built
  /\ twin' = [ built |-> TRUE,
               node |-> Unpack(snapshot.kind,
                               IF cfg.foreign
                               THEN Retagged(snapshot.buf, UnknownTag)
                               ELSE snapshot.buf) ]
  /\ UNCHANGED <<cfg, node, inflight, ps, snapshot>>

TwinHandleEvent ==
  /\ twin.built
  /\ twin.node.state = "ready"
  /\ twin.node.recvCount < node[snapshot.of].recvCount
  /\ LET r == handleEvent(twin.node, cfg.infConv, TimeConverterPs(0))
     IN twin' = [twin EXCEPT !.node =
                   [r.node EXCEPT !.state = StateAfter(r)]]
  /\ UNCHANGED <<cfg, node, inflight, ps, snapshot>>

Next ==
  \/ \E n \in Nodes : Setup(n)
  \/ \E n \in Nodes : HandleEvent(n)
  \/ \E n \in Nodes : Tick(n)
  \/ \E n \in Nodes : Finish(n)
  \/ \E n \in Nodes : Checkpoint(n)
  \/ Restore
  \/ TwinHandleEvent

Spec == Init /\ [][Next]_vars

(***************************************************************************)
(* Properties.                                                             *)
(***************************************************************************)
IsSelect(e) == e[1] = "select"
IsSend(e) == e[1] = "send"
IsDraw(e) == e[1] \in {"uint32", "uniform"}
IsNotTick(e) == e[1] # "tick"

Selects(log) == SelectSeq(log, IsSelect)
Sends(log) == SelectSeq(log, IsSend)
Draws(log) == SelectSeq(log, IsDraw)
WithoutTicks(log) == SelectSeq(log, IsNotTick)

\* the configuration runs the library built from src/phold/Node.cpp
Phold == cfg.variant = "phold"

\* the script supplies both payload sizes, so createEvent never throws
SizesGiven == {"smallPayload", "largePayload"} \subseteq cfg.given

NumLinks(nd) == Len(nd.links)
HasPresentSlot(nd) == \E k \in 1..Len(nd.links) : nd.links[k] # NoLink

\* what the checkpointed node has logged since the checkpoint
SinceCheckpoint ==
  WithoutTicks(SubSeq(node[snapshot.of].log, snapshot.logLen + 1,
                      Len(node[snapshot.of].log)))

\* C1: a node rebuilt from the packed state of a node behaves like that
\* node: fed the events the original has been fed since the checkpoint, it
\* logs the same recvCount values, selector results, draws, delays, payload
\* sizes and sends, and once it has caught up it has the same recvCount,
\* cyclic counter, generator state and policy.
C1_CheckpointRoundTrip ==
  twin.built /\ ~cfg.foreign =>
    LET o == node[snapshot.of]
        t == twin.node
        k == Len(t.log)
    IN /\ k <= Len(SinceCheckpoint)
       /\ t.log = SubSeq(SinceCheckpoint, 1, k)
       /\ t.recvCount <= o.recvCount
       /\ t.recvCount = o.recvCount =>
            /\ k = Len(SinceCheckpoint)
            /\ t.rng = o.rng
            /\ t.movementFunctionCounter = o.movementFunctionCounter
            /\ t.movementFunctionType = o.movementFunctionType
            /\ t.movementFunction = o.movementFunction

C1_Witness ==
  /\ twin.built
  /\ twin.node.movementFunction = "movementFunctionCyclic"
  /\ twin.node.kind = "ExponentialNode"
  /\ twin.node.recvCount = node[snapshot.of].recvCount
  /\ Len(Sends(twin.node.log)) >= 2
  /\ snapshot.logLen < Len(node[snapshot.of].log)

(***************************************************************************)
(* Reference runs.  OtherHosting is the same configuration with the        *)
(* component ids handed out in the other order.  SeqRun is the run of a    *)
(* single rank and thread: every setup in index order, then the events in  *)
(* global time order, the clock handlers at timeToRun.                     *)
(***************************************************************************)
OtherHosting(c) ==
  [c EXCEPT !.hosting = IF @ = "rowmajor" THEN "reversed" ELSE "rowmajor"]

RECURSIVE Fed(_, _, _)
Fed(nd, k, infConv) ==
  IF k = 0 THEN nd
  ELSE Fed(handleEvent(nd, infConv, TimeConverterPs(0)).node, k - 1, infConv)

\* node n of the other hosting, alone: setup, then k events
AloneAfter(n, k) ==
  Fed(CallSetup(cfg, Construct(OtherHosting(cfg), n)).node, k, cfg.infConv)

RECURSIVE SeqSetup(_, _)
SeqSetup(w, n) ==
  IF n = NodeCount(cfg) THEN w
  ELSE LET r == CallSetup(cfg, w.node[n])
       IN SeqSetup([ node |-> [w.node EXCEPT ![n] = r.node],
                     inflight |-> w.inflight
                                    \cup Emitted(n, w.node[n], r.sends, 0),
                     ps |-> w.ps ], n + 1)

RECURSIVE SeqDrain(_, _)
SeqDrain(w, horizon) ==
  LET due == { e \in w.inflight : e.time < horizon }
  IN IF due = {} THEN w
     ELSE LET e == CHOOSE x \in due : \A f \in due : Before(x, f)
              n == e.dst
              psNow == TimeConverterPs(w.ps)
              r == handleEvent(w.node[n], cfg.infConv, psNow)
          IN SeqDrain([ node |-> [w.node EXCEPT ![n] = r.node],
                        inflight |-> (w.inflight \ {e})
                                       \cup Emitted(n, w.node[n], r.sends,
                                                    e.time),
                        ps |-> psNow ], horizon)

SeqRun ==
  LET w0 == [ node |-> [n \in Nodes |-> Construct(OtherHosting(cfg), n)],
              inflight |-> {}, ps |-> 0 ]
      w1 == SeqDrain(SeqSetup(w0, 0), cfg.timeToRun)
      w2 == [w1 EXCEPT !.node = [n \in Nodes |-> tick(w1.node[n])]]
  IN SeqDrain(w2, cfg.timeToRun + 1)

AllFinished == \A n \in Nodes : node[n].state = "finished"

\* C2: whatever order the kernel interleaves the nodes in and whatever
\* component ids it hands out, every node emits the (slot, delay, size)
\* tuples of the single-threaded run of the same configuration, in the same
\* order, and ends with the same recvCount.
C2_PartitionIndependence ==
  AllFinished =>
    LET ref == SeqRun
    IN \A n \in Nodes :
         /\ Sends(node[n].log) = Sends(ref.node[n].log)
         /\ node[n].recvCount = ref.node[n].recvCount

C2_Witness ==
  /\ AllFinished
  /\ NodeCount(cfg) >= 2
  /\ cfg.nodeType = "UniformNode"
  /\ \A n \in Nodes : node[n].recvCount >= 1
  /\ \E n \in Nodes : node[n].recvCount >= 2

\* C3: the draws and decisions of a node are those of a node of the same
\* globalId that another component id hosts and that has been through the
\* same operations (setup, then the same number of handleEvent calls).
C3_RngDeterminism ==
  \A n \in Nodes :
    node[n].state \in {"ready", "finished"} =>
      LET r == AloneAfter(n, node[n].recvCount)
      IN /\ r.myId = node[n].myId
         /\ Draws(node[n].log) = Draws(r.log)
         /\ WithoutTicks(node[n].log) = r.log
         /\ node[n].rng = r.rng
         /\ node[n].movementFunctionCounter = r.movementFunctionCounter


C3_Witness ==
  \E n \in Nodes :
    /\ node[n].id # n
    /\ node[n].recvCount >= 2
    /\ Len(Draws(node[n].log)) >= 5

SentTo(n) ==
  Cardinality({ x \in UNION { {<<m, i>> : i \in 1..Len(node[m].log)} :
                                m \in Nodes } :
                  /\ IsSend(node[x[1]].log[x[2]])
                  /\ node[x[1]].links[node[x[1]].log[x[2]][2] + 1] = n })

\* C5: recvCount is 0 after construction, a step leaves it alone or adds
\* exactly 1 to it, and it always equals the number of events delivered to
\* the node: those sent to it less those still in flight.
C5_RecvCount ==
  /\ \A n \in Nodes : node[n].recvCount = 0
  /\ [](\A n \in Nodes :
          node[n].recvCount = SentTo(n) - Cardinality(Pending(n)))
  /\ [][ /\ \A n \in Nodes :
              \/ node'[n].recvCount = node[n].recvCount
              \/ /\ node'[n].recvCount = node[n].recvCount + 1
                 /\ Cardinality({ e \in inflight' : e.dst = n /\ e \in inflight })
                      = Cardinality(Pending(n)) - 1
         /\ twin.built =>
              \/ twin'.node.recvCount = twin.node.recvCount
              \/ twin'.node.recvCount = twin.node.recvCount + 1
       ]_vars

C5_Witness ==
  \E n \in Nodes :
    /\ node[n].recvCount >= 3
    /\ node[n].state = "finished"
    /\ Pending(n) # {}

\* no more than m consecutive entries of the log are selector calls
SelectRunsAtMost(log, m) ==
  \A i \in 1..(Len(log) - m) : \E j \in i..(i + m) : ~IsSelect(log[j])

RedrawBound(nd) ==
  IF nd.movementFunction = "movementFunctionCyclic"
  THEN NumLinks(nd) ELSE RngMod

\* C6: a node with a present slot never spins in a re-draw loop; under
\* Cyclic a loop makes at most numLinks selector calls, under Random at most
\* as many as the generator needs to produce every residue (its period).
C6_RedrawTerminates ==
  /\ \A n \in Nodes :
       HasPresentSlot(node[n]) =>
         /\ node[n].state # "hung"
         /\ SelectRunsAtMost(node[n].log, RedrawBound(node[n]))
  /\ twin.built /\ HasPresentSlot(twin.node) =>
         /\ twin.node.state # "hung"
         /\ SelectRunsAtMost(twin.node.log, RedrawBound(twin.node))

\* a cyclic loop that needed all of its numLinks calls
C6_Witness ==
  \E n \in Nodes :
    /\ node[n].movementFunction = "movementFunctionCyclic"
    /\ NumLinks(node[n]) > 1
    /\ node[n].recvCount >= 1
    /\ ~SelectRunsAtMost(node[n].log, NumLinks(node[n]) - 1)

\* C7 (as claimed): a node that has entered setup has a present slot, and
\* no node spins in a re-draw loop.
C7_ConstructionRejects ==
  \A n \in Nodes :
    node[n].state # "constructed" =>
      HasPresentSlot(node[n]) /\ node[n].state # "hung"

\* C8: on a node constructed with movementFunction = cyclic, the k-th
\* selector call (k = 0, 1, ...) returns k mod numLinks.
C8_CyclicOrder ==
  \A n \in Nodes :
    node[n].movementFunction = "movementFunctionCyclic" =>
      LET sel == Selects(node[n].log)
      IN \A k \in 1..Len(sel) : sel[k][2] = (k - 1) % NumLinks(node[n])

C8_Witness ==
  \E n \in Nodes :
    /\ node[n].movementFunction = "movementFunctionCyclic"
    /\ NumLinks(node[n]) > 1
    /\ Len(Selects(node[n].log)) > NumLinks(node[n])

\* the logged draws are the successive words of the generator seeded from
\* myId, and the generator stands at the last of them
DrawChain(nd) ==
  LET dr == Draws(nd.log)
  IN /\ \A k \in 1..Len(dr) :
          dr[k][2] = RngNext(IF k = 1 THEN RngSeed(nd.myId) ELSE dr[k - 1][2])
     /\ nd.rng = IF dr = <<>> THEN RngSeed(nd.myId) ELSE dr[Len(dr)][2]

\* C9: on a node bound to the Random selector every selector call takes
\* exactly one word of the generator, returns that word mod numLinks (a
\* value in 0..numLinks-1), and the cyclic counter stays as constructed.
C9_RandomSelector ==
  \A n \in Nodes :
    node[n].movementFunction = "movementFunctionRandom" =>
      LET log == node[n].log
      IN /\ \A i \in 1..Len(log) :
              /\ IsSelect(log[i]) =>
                   /\ i > 1
                   /\ log[i - 1][1] = "uint32"
                   /\ log[i][2] = log[i - 1][2] % NumLinks(node[n])
                   /\ log[i][2] \in 0..(NumLinks(node[n]) - 1)
              /\ log[i][1] = "uint32" =>
                   i < Len(log) /\ IsSelect(log[i + 1])
         /\ DrawChain(node[n])
         /\ node[n].movementFunctionCounter = 0

C9_Witness ==
  \E n \in Nodes :
    /\ node[n].movementFunction = "movementFunctionRandom"
    /\ NumLinks(node[n]) > 1
    /\ node[n].recvCount >= 2
    /\ \E i \in 1..Len(node[n].log) :
         /\ IsSelect(node[n].log[i])
         /\ node[n].log[i - 1][2] >= NumLinks(node[n])

\* C10: every createEvent takes exactly one draw r = word / 2^RngBits and
\* makes a payload of largePayload bytes if r < largeEventFraction and of
\* smallPayload bytes otherwise; the event sent carries that payload; with
\* largeEventFraction = 0 every payload is small, with 1 every one is large.
C10_PayloadFactory ==
  \A n \in Nodes :
    LET nd == node[n]
        log == nd.log
        f == nd.largeEventFraction
    IN /\ \A i \in 1..Len(log) :
            /\ log[i][1] = "payload" =>
                 /\ i > 1
                 /\ log[i - 1][1] = "uniform"
                 /\ log[i][2] = IF log[i - 1][2] * f[2] < f[1] * RngMod
                                THEN nd.largePayload ELSE nd.smallPayload
                 /\ f = <<0, 1>> => log[i][2] = nd.smallPayload
                 /\ f = <<1, 1>> => log[i][2] = nd.largePayload
            /\ IsSend(log[i]) =>
                 \E j \in 1..(i - 1) :
                   /\ log[j][1] = "payload"
                   /\ log[j][2] = log[i][4]
                   /\ \A m \in (j + 1)..(i - 1) : log[m][1] # "payload"
       /\ Len(SelectSeq(log, IsSend)) =
            Cardinality({ i \in 1..Len(log) : log[i][1] = "payload" })
       /\ DrawChain(nd)

C10_Witness ==
  \E n \in Nodes :
    /\ node[n].recvCount >= 1
    /\ node[n].largeEventFraction = <<1, 2>>
    /\ \E i, j \in 1..Len(node[n].log) :
         /\ node[n].log[i] = <<"payload", node[n].largePayload, 0, 0>>
         /\ node[n].log[j] = <<"payload", node[n].smallPayload, 0, 0>>

\* the part of a log that setup wrote: what precedes the first event
\* handled and the clock handler
SetupLog(log) ==
  LET later == { i \in 1..Len(log) : log[i][1] \in {"recv", "tick"} }
  IN IF later = {} THEN log
     ELSE SubSeq(log, 1, (CHOOSE i \in later : \A j \in later : i <= j) - 1)

InitialSends(nd) == Sends(SetupLog(nd.log))

Floor(d) == d[1] \div d[2]

\* C11 (as claimed): for a configured eventDensity d >= 0, a node that has
\* entered setup has made floor(d) initial sends (one more at most, the
\* fractional one), each on a present slot and with zero added delay, so
\* that the event arrives after the link latency alone.
C11_FloorSends ==
  \A n \in Nodes :
    node[n].state # "constructed" /\ cfg.eventDensity[1] >= 0 =>
      LET is == InitialSends(node[n])
      IN /\ Len(is) \in {Floor(cfg.eventDensity), Floor(cfg.eventDensity) + 1}
         /\ \A k \in 1..Len(is) :
              /\ is[k][3] = 0
              /\ node[n].links[is[k][2] + 1] # NoLink
         /\ \A e \in inflight :
              e.src = n /\ e.seq <= Len(is) => e.time = cfg.linkDelay

\* C12 (as claimed): with frac = d - floor(d) and period = floor(1 / frac),
\* a node that has entered setup has sent exactly one event beyond the
\* floor(d) unconditional ones if frac > 0 and myId mod period = 0, none
\* beyond them otherwise, and every draw of setup belongs to a selector
\* call or a payload.
C12_FractionalSend ==
  \A n \in Nodes :
    node[n].state # "constructed" /\ cfg.eventDensity[1] >= 0 =>
      LET d == cfg.eventDensity
          frac == d[1] % d[2]
          extra == frac > 0 /\ node[n].myId % (d[2] \div frac) = 0
          sl == SetupLog(node[n].log)
          beyond == Len(Sends(sl)) - Floor(d)
      IN /\ extra => beyond = 1
         /\ ~extra => beyond <= 0
         /\ \A i \in 1..Len(sl) :
              IsDraw(sl[i]) =>
                i < Len(sl) /\ sl[i + 1][1] \in {"select", "payload"}

\* C13 (as claimed): a node configured with eventDensity <= 0 makes no
\* initial send.
C13_NoEventsForNonPositive ==
  \A n \in Nodes :
    node[n].state # "constructed" /\ cfg.eventDensity[1] <= 0 =>
      InitialSends(node[n]) = <<>>

\* C13 (amended): a node configured with eventDensity = 0 makes no initial
\* send; a negative eventDensity is replaced at construction by numLinks,
\* and the node makes numLinks initial sends (none, spinning in setup, when
\* it has no present slot).
C13_NegativeDensityIsLinkCount ==
  \A n \in Nodes :
    /\ Phold /\ cfg.eventDensity[1] = 0 /\ node[n].state # "constructed" =>
         InitialSends(node[n]) = <<>> /\ node[n].state # "hung"
    /\ Phold /\ cfg.eventDensity[1] < 0 =>
         /\ node[n].eventDensity = <<NumLinks(node[n]), 1>>
         /\ node[n].state \in {"ready", "finished"} =>
              Len(InitialSends(node[n])) = NumLinks(node[n])
         /\ node[n].state = "hung" =>
              ~HasPresentSlot(node[n]) /\ InitialSends(node[n]) = <<>>

C13_Witness ==
  \E n \in Nodes :
    /\ Phold
    /\ cfg.eventDensity[1] < 0
    /\ node[n].state = "ready"
    /\ NumLinks(node[n]) > 1
    /\ Len(InitialSends(node[n])) = NumLinks(node[n])
    /\ node[n].recvCount >= 1

\* C14: in a configuration that supplies i, j, rowCount and colCount, a
\* node holds them as given and its myId is myRow * colCount + myCol, in
\* every state; so does the node rebuilt from a checkpoint.
C14_GlobalId ==
  {"i", "j", "rowCount", "colCount"} \subseteq cfg.given =>
    /\ \A n \in Nodes :
         /\ node[n].myRow = n \div cfg.cols
         /\ node[n].myCol = n % cfg.cols
         /\ node[n].rowCount = cfg.rows
         /\ node[n].colCount = cfg.cols
         /\ node[n].myId = node[n].myRow * node[n].colCount + node[n].myCol
    /\ twin.built =>
         /\ twin.node.myRow = snapshot.of \div cfg.cols
         /\ twin.node.myCol = snapshot.of % cfg.cols
         /\ twin.node.colCount = cfg.cols
         /\ twin.node.myId =
              twin.node.myRow * twin.node.colCount + twin.node.myCol

C14_Witness ==
  /\ twin.built
  /\ twin.node.myId >= 1
  /\ twin.node.recvCount >= 1
  /\ node[snapshot.of].state = "finished"

UnrecognizedMovement ==
  <<"Unrecognized movement function, defaulting to random">>

\* C15: a node configured with a movementFunction other than "random" and
\* "cyclic" is constructed, has written the warning, carries the tag RANDOM
\* and the Random selector, and logs what the node configured with "random"
\* logs after the same operations.
C15_UnrecognizedPolicy ==
  cfg.movementFunction \notin {"random", "cyclic"} =>
    \A n \in Nodes :
      LET nd == node[n]
          ref == Construct([cfg EXCEPT !.movementFunction = "random"], n)
      IN /\ nd.err = UnrecognizedMovement
         /\ ref.err = <<>>
         /\ nd.movementFunctionType = RANDOM
         /\ nd.movementFunction = "movementFunctionRandom"
         /\ nd.state \in {"ready", "finished"} =>
              LET r == Fed(setup(ref, cfg.infConv).node, nd.recvCount, cfg.infConv)
              IN /\ WithoutTicks(nd.log) = r.log
                 /\ nd.rng = r.rng
                 /\ nd.movementFunctionCounter = r.movementFunctionCounter
         /\ nd.state = "hung" => setup(ref, cfg.infConv).hung

C15_Witness ==
  /\ cfg.movementFunction \notin {"random", "cyclic"}
  /\ \E n \in Nodes :
       /\ node[n].recvCount >= 2
       /\ NumLinks(node[n]) > 1
       /\ Len(Selects(node[n].log)) >= 4

UnrecognizedTag ==
  <<"Unrecognized movement function type during deserialization, defaulting to random">>

\* the fields of a checkpoint file, in the order of the file
StoredFields(kind) ==
  ComponentFields \o NodeFields
    \o (CASE kind = "ExponentialNode" -> <<"multiplier">>
          [] kind = "UniformNode" -> <<"min", "max">>
          [] OTHER -> <<>>)

\* C16: a node restored from a checkpoint whose policy tag is neither
\* RANDOM nor CYCLIC is built and ready, has written the warning, selects
\* with the Random selector (every selection is one generator word mod
\* numLinks), and holds every other field as the file stores it.
C16_UnknownTagOnRestore ==
  twin.built /\ cfg.foreign =>
    LET t == twin.node
        names == StoredFields(snapshot.kind)
    IN /\ t.state = "ready"
       /\ t.err = UnrecognizedTag
       /\ t.movementFunction = "movementFunctionRandom"
       /\ t.movementFunctionType = UnknownTag
       /\ t.log = <<>> =>
            \A i \in 1..Len(names) :
              names[i] # "movementFunctionType" =>
                t[names[i]] = snapshot.buf[i]
       /\ \A i \in 1..Len(t.log) :
            IsSelect(t.log[i]) =>
              /\ i > 1
              /\ t.log[i - 1][1] = "uint32"
              /\ t.log[i][2] = t.log[i - 1][2] % NumLinks(t)
       /\ t.movementFunctionCounter =
            snapshot.buf[FieldIndex(names, "movementFunctionCounter")]

C16_Witness ==
  /\ twin.built
  /\ cfg.foreign
  /\ node[snapshot.of].movementFunction = "movementFunctionCyclic"
  /\ twin.node.recvCount > snapshot.buf[FieldIndex(StoredFields(snapshot.kind),
                                                   "recvCount")]
  /\ Len(Selects(twin.node.log)) >= 2

\* the number of entries of a kind in a log
Count(log, kind) == Cardinality({ i \in 1..Len(log) : log[i][1] = kind })

\* C17: the delay of the base Node is 0 and takes no draw; the delays of
\* ExponentialNode and UniformNode take exactly one draw per call; no call
\* changes anything of the node but the generator.
C17_DelayDraws ==
  \A n \in Nodes :
    LET nd == node[n]
        log == nd.log
    IN /\ \A i \in 1..Len(log) :
            log[i][1] = "delay" =>
              /\ i > 1
              /\ IF nd.kind = "Node"
                 THEN log[i][2] = 0 /\ ~IsDraw(log[i - 1])
                 ELSE /\ log[i - 1][1] = "uniform"
                      /\ i > 2
                      /\ IsSelect(log[i - 2])
       /\ DrawChain(nd)
       /\ Len(Draws(log)) =
            Count(log, "payload") + Count(log, "length_error")
              + (IF nd.movementFunction = "movementFunctionRandom"
                 THEN Count(log, "select") ELSE 0)
              + (IF nd.kind = "Node" THEN 0 ELSE Count(log, "delay"))
       /\ nd.state = "ready" =>
            LET r == timestepIncrementFunction(nd, cfg.infConv)
            IN /\ \A f \in (DOMAIN nd) \ {"rng", "log"} : r.node[f] = nd[f]
               /\ r.node.rng =
                    IF nd.kind = "Node" THEN nd.rng ELSE RngNext(nd.rng)
               /\ nd.kind = "Node" => r.delay = 0

C17_Witness ==
  \E n \in Nodes :
    /\ node[n].kind = "UniformNode"
    /\ Count(node[n].log, "delay") >= 2
    /\ \E i \in 1..Len(node[n].log) :
         node[n].log[i][1] = "delay" /\ node[n].log[i][2] > 0

\* every delay of the log is (min + (max - min) * u) * 1000 truncated, for
\* the draw u = word / RngMod logged before it, and lies in the range
UniformDelaysInRange(nd) ==
  \A i \in 2..Len(nd.log) :
    nd.log[i][1] = "delay" =>
      /\ nd.log[i - 1][1] = "uniform"
      /\ nd.log[i][2] =
           Trunc(1000 * (nd.min * RngMod + (nd.max - nd.min) * nd.log[i - 1][2]),
                 RngMod)
      /\ nd.log[i][2] >= 1000 * nd.min
      /\ nd.log[i][2] <= 1000 * nd.max
      /\ nd.min >= 0 => nd.log[i][2] >= 0

LastDelay(log) ==
  LET ds == SelectSeq(log, LAMBDA e : e[1] = "delay")
  IN ds[Len(ds)][2]

\* C19 (as claimed): the event a node emits when it handles an event of
\* time t is due at t + delay, delay being the value its delay model
\* returned in this call, and never before t.
C19_DeliveryAtNowPlusDelay ==
  [][ \A n \in Nodes :
        node'[n].recvCount # node[n].recvCount =>
          \E e \in inflight, f \in inflight' :
            /\ e.dst = n /\ e \notin inflight'
            /\ f.src = n /\ f \notin inflight
            /\ f.time = e.time + LastDelay(node'[n].log)
            /\ f.time >= e.time
    ]_vars

\* C19 (amended): the event is due at t + link latency + delay (a call in
\* which the payload factory throws emits no event).
C19_DeliveryAfterLinkLatency ==
  [][ \A n \in Nodes :
        node'[n].recvCount # node[n].recvCount /\ ~Crashed(node'[n]) =>
          \E e \in inflight, f \in inflight' :
            /\ e.dst = n /\ e \notin inflight'
            /\ f.src = n /\ f \notin inflight
            /\ Count(node'[n].log, "delay") = Count(node[n].log, "delay") + 1
            /\ f.time = e.time + cfg.linkDelay + LastDelay(node'[n].log)
            /\ f.time >= e.time
            /\ f.dst = node[n].links[node'[n].log[Len(node'[n].log)][2] + 1]
    ]_vars

C19_Witness ==
  \E n \in Nodes : \E f \in inflight :
    /\ node[n].recvCount >= 1
    /\ node[n].log[Len(node[n].log)][1] = "send"
    /\ f.src = n
    /\ f.seq = node[n].sent
    /\ LastDelay(node[n].log) > 0
    /\ f.time = node[n].now + cfg.linkDelay + LastDelay(node[n].log)

C21_SummaryLine ==
  \A n \in Nodes :
    LET nd == node[n]
    IN /\ nd.state # "finished" => nd.printed = <<>>
       /\ nd.state = "finished" =>
            /\ (nd.printed # <<>>) <=> (nd.verbose # 0)
            /\ nd.verbose # 0 =>
                 /\ Len(nd.printed) = 1
                 /\ LET line == nd.printed[1]
                        k == Len(line)
                    IN /\ k \in {6, 8}
                       /\ line[1] = ToString(nd.myRow)
                       /\ line[2] = ","
                       /\ line[3] = ToString(nd.myCol)
                       /\ line[4] \in {":", " : "}
                       /\ k = 8 => /\ line[5] = ToString(NumLinks(nd))
                                   /\ line[6] = ","
                       /\ line[k - 1] = ToString(Count(nd.log, "recv"))
                       /\ line[k] = "\n"

\* a verbose node torn down after it handled two events or more
C21_Witness ==
  \E n \in Nodes :
    /\ node[n].state = "finished"
    /\ node[n].verbose # 0
    /\ node[n].printed # <<>>
    /\ Count(node[n].log, "recv") >= 2

\* the position and size parameters, the member each is read into and the
\* warning written when it is absent
PositionAndSizeKeys ==
  { "i", "j", "rowCount", "colCount", "smallPayload", "largePayload",
    "largeEventFraction" }

MemberOf(k) ==
  CASE k = "i" -> "myRow"
    [] k = "j" -> "myCol"
    [] OTHER -> k

WarningOf(k) ==
  CASE k = "i" -> "WARNING: Failed to get myRow"
    [] k = "j" -> "WARNING: Failed to get myCol"
    [] k = "rowCount" -> "WARNING: Failed to get rowCount"
    [] k = "colCount" -> "WARNING: Failed to get colCount"
    [] k = "smallPayload" -> "WARNING: Failed to get small payload size"
    [] k = "largePayload" -> "WARNING: Failed to get large payload size"
    [] OTHER -> "WARNING: Failed to get large event fraction"

\* how often a message was written to std::cerr
Written(err, msg) == Cardinality({ i \in 1..Len(err) : err[i] = msg })

\* C23: for each position or size parameter the script leaves out, the
\* node holds the sentinel -1 in its member and has written the warning of
\* that parameter exactly once (and no warning for a parameter that is
\* there); the node is constructed all the same and its setup is
\* entered; and myId is myRow * colCount + myCol of the values held,
\* sentinels included.
C23_MissingParameter ==
  \A n \in Nodes :
    LET nd == node[n]
        row == IF "i" \in cfg.given THEN n \div cfg.cols ELSE -1
        col == IF "j" \in cfg.given THEN n % cfg.cols ELSE -1
        colCount == IF "colCount" \in cfg.given THEN cfg.cols ELSE -1
    IN /\ \A k \in PositionAndSizeKeys :
            IF k \in cfg.given
            THEN Written(nd.err, WarningOf(k)) = 0
            ELSE /\ Written(nd.err, WarningOf(k)) = 1
                 /\ IF k = "largeEventFraction"
                    THEN nd.largeEventFraction = <<-1, 1>>
                    ELSE nd[MemberOf(k)] = -1
       /\ nd.myId = row * colCount + col
       /\ nd.myId = nd.myRow * nd.colCount + nd.myCol
       /\ nd.state = "constructed" =>
            CallSetup(cfg, nd).node.log[1] = <<"setup", 0, 0, 0>>

\* a node built without i, so myRow = -1 and myId < 0, that has run setup
\* and handled an event
C23_Witness ==
  \E n \in Nodes :
    /\ "i" \notin cfg.given
    /\ node[n].myRow = -1
    /\ node[n].myId = node[n].myCol - node[n].colCount
    /\ Written(node[n].err, "WARNING: Failed to get myRow") = 1
    /\ node[n].state = "ready"
    /\ node[n].recvCount >= 1

\* C24: in every state the cyclic counter of a node, and of the node
\* rebuilt from a checkpoint, is at least 0 and below numLinks (numLinks
\* >= 1), and every index a selector call returned, first draws and
\* re-draws alike, is an index of links.
C24_CyclicCounterInRange ==
  LET InRange(nd) ==
        /\ NumLinks(nd) >= 1
        /\ nd.movementFunctionCounter >= 0
        /\ nd.movementFunctionCounter < NumLinks(nd)
        /\ \A i \in 1..Len(nd.log) :
             IsSelect(nd.log[i]) =>
               nd.log[i][2] >= 0 /\ nd.log[i][2] < NumLinks(nd)
  IN /\ \A n \in Nodes : InRange(node[n])
     /\ twin.built /\ ~cfg.foreign => InRange(twin.node)
     /\ twin.built /\ cfg.foreign =>
          /\ twin.node.movementFunctionCounter >= 0
          /\ twin.node.movementFunctionCounter < NumLinks(twin.node)

\* a cyclic node whose counter has wrapped around, after a re-draw, and the
\* node rebuilt from its checkpoint with a counter above 0
C24_Witness ==
  /\ twin.built
  /\ ~cfg.foreign
  /\ twin.node.movementFunction = "movementFunctionCyclic"
  /\ twin.node.movementFunctionCounter > 0
  /\ Len(Selects(twin.node.log)) >= 1
  /\ \E n \in Nodes :
       /\ n = snapshot.of
       /\ Len(Selects(node[n].log)) > NumLinks(node[n])
       /\ ~SelectRunsAtMost(node[n].log, 1)

\* what construction fixes: the identity, the link slots, the policy tag,
\* the parameters of the delay model and of the payloads
Frozen ==
  { "myId", "myRow", "myCol", "rowCount", "colCount", "links",
    "movementFunctionType", "multiplier", "min", "max", "smallPayload",
    "largePayload", "largeEventFraction" }

\* C25: no step of a run (setup, an event handled, a clock tick, finish, a
\* checkpoint) changes a fixed member of any node, nor does an event
\* handled by the node rebuilt from a checkpoint; and packing a node leaves
\* the whole node as it was.
C25_FrozenConfiguration ==
  /\ [][ /\ \A n \in Nodes : \A f \in Frozen : node'[n][f] = node[n][f]
         /\ twin.built =>
              \A f \in Frozen : twin'.node[f] = twin.node[f]
       ]_vars
  /\ [](\A n \in Nodes :
          serialize_order(node[n], [mode |-> "PACK", buf |-> <<>>]).node
            = node[n])

\* a node that has been through every operation: setup, events of both
\* payload sizes, a clock tick, a checkpoint and finish
C25_Witness ==
  /\ snapshot.taken
  /\ \E n \in Nodes :
       /\ n = snapshot.of
       /\ node[n].state = "finished"
       /\ Count(node[n].log, "tick") >= 1
       /\ node[n].recvCount >= 1
       /\ \E i, j \in 1..Len(node[n].log) :
            /\ node[n].log[i][1] = "payload"
            /\ node[n].log[j][1] = "payload"
            /\ node[n].log[i][2] # node[n].log[j][2]

\* the step is a call of handleEvent on nd: the log gains a "recv" entry
Handles(nd, after) == Count(after.log, "recv") = Count(nd.log, "recv") + 1

\* C26 (as claimed): recvCount and the cyclic counter of a node change
\* only in a step in which the node handles an event.
C26_CountersOnlyInHandleEvent ==
  [][ \A n \in Nodes :
        (\/ node'[n].recvCount # node[n].recvCount
         \/ node'[n].movementFunctionCounter
              # node[n].movementFunctionCounter)
          => Handles(node[n], node'[n])
    ]_vars

\* C26 (amended): recvCount changes only in handleEvent, by one; the cyclic
\* counter changes only in setup and in handleEvent of a cyclic node, by the
\* number of selector calls of the step; a clock tick, finish and a
\* checkpoint leave both as they are; no step changes two nodes, and the
\* one static, the time converter of handleEvent, is set once.
C26_CountersOnlyInSetupAndHandleEvent ==
  [][ /\ \A n \in Nodes :
           LET nd == node[n]
               after == node'[n]
           IN /\ after.recvCount # nd.recvCount =>
                   Handles(nd, after) /\ after.recvCount = nd.recvCount + 1
              /\ after.movementFunctionCounter # nd.movementFunctionCounter =>
                   /\ (Handles(nd, after) \/ nd.state = "constructed")
                   /\ nd.movementFunction = "movementFunctionCyclic"
              /\ nd.movementFunction = "movementFunctionCyclic" =>
                   after.movementFunctionCounter =
                     (nd.movementFunctionCounter
                        + Count(after.log, "select") - Count(nd.log, "select"))
                       % NumLinks(nd)
              /\ (\/ Count(after.log, "tick") # Count(nd.log, "tick")
                  \/ (after.state = "finished" /\ nd.state # "finished")
                  \/ snapshot' # snapshot) =>
                   /\ after.recvCount = nd.recvCount
                   /\ after.movementFunctionCounter = nd.movementFunctionCounter
      /\ \A n, m \in Nodes :
           n # m => node'[n] = node[n] \/ node'[m] = node[m]
      /\ (twin.built /\ twin' # twin) => node' = node
      /\ ps' # ps => ps = 0
    ]_vars

\* a cyclic node whose counter moved in setup, that has since handled an
\* event and ticked
C26_Witness ==
  \E n \in Nodes :
    /\ node[n].movementFunction = "movementFunctionCyclic"
    /\ Len(Selects(SetupLog(node[n].log))) >= 1
    /\ node[n].recvCount >= 1
    /\ node[n].movementFunctionCounter # 0
    /\ Count(node[n].log, "tick") >= 1

\* C27: the node rebuilt from a checkpoint gets its selector from the
\* stored policy tag.  With tag CYCLIC and stored counter c its selector
\* calls return c, c+1, c+2, ... mod numLinks and take no word of the
\* generator; with tag RANDOM each selector call returns one word of the
\* generator mod numLinks and the counter stays at c.
C27_RestoredSelector ==
  twin.built /\ ~cfg.foreign =>
    LET t == twin.node
        names == StoredFields(snapshot.kind)
        tag == snapshot.buf[FieldIndex(names, "movementFunctionType")]
        c == snapshot.buf[FieldIndex(names, "movementFunctionCounter")]
        sel == Selects(t.log)
    IN /\ tag \in {RANDOM, CYCLIC}
       /\ t.movementFunctionType = tag
       /\ tag = CYCLIC =>
            /\ t.movementFunction = "movementFunctionCyclic"
            /\ \A k \in 1..Len(sel) : sel[k][2] = (c + k - 1) % NumLinks(t)
            /\ Count(t.log, "uint32") = 0
            /\ t.movementFunctionCounter = (c + Len(sel)) % NumLinks(t)
       /\ tag = RANDOM =>
            /\ t.movementFunction = "movementFunctionRandom"
            /\ \A i \in 1..Len(t.log) :
                 IsSelect(t.log[i]) =>
                   /\ i > 1
                   /\ t.log[i - 1][1] = "uint32"
                   /\ t.log[i][2] = t.log[i - 1][2] % NumLinks(t)
            /\ Count(t.log, "uint32") = Len(sel)
            /\ t.movementFunctionCounter = c

\* a node rebuilt from a cyclic checkpoint with counter c > 0 that has
\* selected twice since
C27_Witness ==
  /\ twin.built
  /\ ~cfg.foreign
  /\ twin.node.movementFunctionType = CYCLIC
  /\ snapshot.buf[FieldIndex(StoredFields(snapshot.kind),
                             "movementFunctionCounter")] > 0
  /\ Len(Selects(twin.node.log)) >= 2
  /\ NumLinks(twin.node) > 1

\* the "period" entries of a log: <<"period", period, c1, c2>> where c1 / c2
\* is the counter the period was computed from
Periods(log) == SelectSeq(log, LAMBDA e : e[1] = "period")

\* C28: whenever setup of src/phold/Node.cpp computes the period, the
\* counter is above 0 and below 1, the period is the whole part of
\* 1 / counter and at least 1, and no division by zero follows; setup
\* computes it exactly when the fraction of eventDensity is not zero.
C28_PeriodAtLeastOne ==
  Phold =>
    \A n \in Nodes :
      LET nd == node[n]
          p == Periods(nd.log)
          d == nd.eventDensity
      IN /\ \A i \in 1..Len(p) :
              /\ 0 < p[i][3] /\ p[i][3] < p[i][4]
              /\ p[i][2] >= 1
              /\ p[i][2] * p[i][3] <= p[i][4]
              /\ (p[i][2] + 1) * p[i][3] > p[i][4]
              /\ p[i][3] * d[2] = (d[1] % d[2]) * p[i][4]
         /\ Count(nd.log, "SIGFPE") = 0
         /\ Len(p) <= 1
         /\ nd.state \in {"ready", "finished"} =>
              (Len(p) = 1 <=> d[1] % d[2] # 0)

\* C29 (as claimed): whenever setup of the earlier Node.cpp computes the
\* period, the counter is above 0 and below 1, whatever eventDensity is;
\* and a node with a whole-number eventDensity d >= 0 makes exactly d
\* initial sends.
C29_EarlierCounterInUnitInterval ==
  ~Phold =>
    \A n \in Nodes :
      LET nd == node[n]
          p == Periods(nd.log)
          d == nd.eventDensity
      IN /\ \A i \in 1..Len(p) : 0 < p[i][3] /\ p[i][3] < p[i][4]
         /\ Count(nd.log, "SIGFPE") = 0
         /\ (d[1] >= 0 /\ d[1] % d[2] = 0
               /\ nd.state \in {"ready", "finished"}) =>
              Len(InitialSends(nd)) = d[1] \div d[2]

\* C30: a node is constructed vetoing the end of the simulation; a step
\* gives it the vote OK-to-end exactly when it is its clock tick, which
\* comes only when no event below timeToRun is left for the node; no step
\* takes the vote back; a node is torn down only when every node has
\* voted, whether or not events are still in flight.
C30_EndOfSimulationVoting ==
  /\ [](\A n \in Nodes :
          /\ node[n].state = "constructed" => ~node[n].okToEnd
          /\ node[n].okToEnd <=> Count(node[n].log, "tick") >= 1
          /\ node[n].state = "finished" =>
               \A m \in Nodes : node[m].okToEnd)
  /\ [][ \A n \in Nodes :
           /\ node[n].okToEnd => node'[n].okToEnd
           /\ Count(node'[n].log, "tick") # Count(node[n].log, "tick") =>
                /\ node'[n].okToEnd
                /\ node[n].timeToRun = cfg.timeToRun
                /\ \A e \in inflight : e.dst = n => e.time >= node[n].timeToRun
                /\ node[n].now <= node[n].timeToRun
       ]_vars

\* the run has ended, every node has voted, and events are still in flight
C30_Witness ==
  /\ \A n \in Nodes : node[n].state = "finished" /\ node[n].okToEnd
  /\ inflight # {}
  /\ \E n \in Nodes : node[n].recvCount >= 2

(***************************************************************************)
(* The infiniteLoop failure test (src/failureTests/infiniteLoopTest): a    *)
(* second element library with its own Node, run under the debugger for a  *)
(* stretch of simulated time (r <time>) and then shut down by hand.  Its   *)
(* runs are the behaviours of LoopSpec, over the same variables; times are *)
(* in ns.  A node is [payload, myPort, okToEnd, state, cycle, sent, now,   *)
(* out]: myPort is the node at the other end of the link, cycle the number *)
(* of clock ticks so far, out what the node wrote to std::cout.            *)
(***************************************************************************)
\* registerClock("1000ns", clkHandler)
LoopClockPeriod == 1000

infiniteLoopCtor(id, params) ==
  [ id |-> id,
    payload |-> IF "payload" \in params.given THEN params.payload ELSE 0,
    myPort |-> params.myPort,
    okToEnd |-> FALSE,
    state |-> "constructed",
    cycle |-> 0,
    sent |-> 0,
    now |-> 0,
    out |-> <<>> ]

\* myPort->send(new SST::Event())
infiniteLoopSetup(nd) ==
  [ node |-> [nd EXCEPT !.state = "ready", !.sent = @ + 1], sends |-> 1 ]

\* a handler that only consumes the event
infiniteLoopHandleEventDropping(nd, deliveryTime) ==
  [ node |-> [nd EXCEPT !.out = Append(@, << "Received event at timestamp ",
                                             deliveryTime, nd.payload >>),
                        !.now = deliveryTime],
    sends |-> 0 ]

\* prints the delivery time and the payload, deletes the event and sends a
\* new one on myPort
infiniteLoopHandleEvent(nd, deliveryTime) ==
  [ node |-> [nd EXCEPT !.out = Append(@, << "Received event at timestamp ",
                                             deliveryTime, nd.payload >>),
                        !.now = deliveryTime,
                        !.sent = @ + 1],
    sends |-> 1 ]

\* the clock handler with primaryComponentOKToEndSim() left in
infiniteLoopTickVoting(nd) == [nd EXCEPT !.cycle = @ + 1, !.okToEnd = TRUE]

\* primaryComponentOKToEndSim() is commented out; returns false
infiniteLoopTick(nd) == [nd EXCEPT !.cycle = @ + 1]

infiniteLoopFinish(nd) ==
  [nd EXCEPT !.state = "finished",
             !.out = Append(@, << "component done with payload: ",
                                  nd.payload, "\n" >>)]

\* the wirings of myPort (a component linked to itself, one pair, two
\* pairs), the latency of the links, the payloads and the time the
\* debugger is told to run for
LoopWirings == { <<0>>, <<1, 0>>, <<1, 0, 3, 2>> }

LoopCfgs ==
  { [ test |-> "infiniteLoop", myPort |-> w, linkDelay |-> l,
      given |-> g, payload |-> 7, runFor |-> t ] :
      w \in LoopWirings, l \in {400, 1000}, g \in { {}, {"payload"} },
      t \in {100, 2000} }

LoopNodes == 1..Len(cfg.myPort)

LoopInit ==
  /\ cfg \in LoopCfgs
  /\ node = [ n \in 1..Len(cfg.myPort) |->
                infiniteLoopCtor(n, [ given |-> cfg.given,
                                      payload |-> cfg.payload + n,
                                      myPort |-> cfg.myPort[n] + 1 ]) ]
  /\ inflight = {}
  /\ ps = 0
  /\ snapshot = NoSnapshot
  /\ twin = NoTwin

\* the events that sends of node n at time now put in flight
LoopEmitted(n, before, sends, now) ==
  { [ src |-> n, seq |-> before.sent + k, dst |-> before.myPort,
      time |-> now + cfg.linkDelay ] : k \in 1..sends }

LoopAllReady == \A n \in LoopNodes : node[n].state = "ready"

\* no event that is or will be addressed to n has a time below t
LoopNothingBefore(n, t) ==
  \A e \in inflight :
    IF e.dst = n THEN e.time >= t ELSE e.time + cfg.linkDelay >= t

LoopSetup(n) ==
  /\ node[n].state = "constructed"
  /\ LET r == infiniteLoopSetup(node[n])
     IN /\ node' = [node EXCEPT ![n] = r.node]
        /\ inflight' = inflight \cup LoopEmitted(n, node[n], r.sends, 0)
  /\ UNCHANGED <<cfg, ps, snapshot, twin>>

\* the earliest event of n, once its clock ticks up to that time are done
LoopHandleEvent(n) ==
  /\ LoopAllReady
  /\ \E e \in inflight :
       /\ e.dst = n
       /\ e.time <= cfg.runFor
       /\ \A f \in inflight : f.dst = n => Before(e, f)
       /\ LoopNothingBefore(n, e.time)
       /\ (node[n].cycle + 1) * LoopClockPeriod > e.time
       /\ LET r == infiniteLoopHandleEvent(node[n], e.time)
          IN /\ node' = [node EXCEPT ![n] = r.node]
             /\ inflight' = (inflight \ {e})
                              \cup LoopEmitted(n, node[n], r.sends, e.time)
  /\ UNCHANGED <<cfg, ps, snapshot, twin>>

LoopTick(n) ==
  /\ LoopAllReady
  /\ (node[n].cycle + 1) * LoopClockPeriod <= cfg.runFor
  /\ LoopNothingBefore(n, (node[n].cycle + 1) * LoopClockPeriod)
  /\ node' = [node EXCEPT ![n] = infiniteLoopTick(node[n])]
  /\ UNCHANGED <<cfg, inflight, ps, snapshot, twin>>

\* the time asked for has passed; the user gives the shutdown command and
\* the kernel calls finish() of every component
LoopShutdown(n) ==
  /\ node[n].state = "ready"
  /\ \A m \in LoopNodes :
       /\ node[m].state \in {"ready", "finished"}
       /\ (node[m].cycle + 1) * LoopClockPeriod > cfg.runFor
  /\ \A e \in inflight : e.time > cfg.runFor
  /\ node' = [node EXCEPT ![n] = infiniteLoopFinish(node[n])]
  /\ UNCHANGED <<cfg, inflight, ps, snapshot, twin>>

LoopNext ==
  \/ \E n \in LoopNodes : LoopSetup(n)
  \/ \E n \in LoopNodes : LoopHandleEvent(n)
  \/ \E n \in LoopNodes : LoopTick(n)
  \/ \E n \in LoopNodes : LoopShutdown(n)

LoopSpec == LoopInit /\ [][LoopNext]_vars

\* C22: in every state of a run of the infiniteLoop test no component has
\* voted OK-to-end, so the kernel's condition for ending (every primary
\* component has voted) never holds; every component that has been set up
\* accounts for one event in flight, so an event is in flight from the
\* first setup on; the step that handles an event takes that event out
\* and puts exactly one in, sent on myPort; and a clock tick changes
\* nothing but the cycle count.
C22_NeverCompletes ==
  /\ [](/\ \A n \in LoopNodes : ~node[n].okToEnd
        /\ Cardinality(inflight) =
             Cardinality({ n \in LoopNodes : node[n].state # "constructed" })
        /\ (\E n \in LoopNodes : node[n].state # "constructed") =>
             inflight # {})
  /\ [][ \A n \in LoopNodes :
           /\ Len(node'[n].out) # Len(node[n].out)
                /\ node'[n].state = "ready" =>
                \E e \in inflight, f \in inflight' :
                  /\ e.dst = n /\ f \notin inflight
                  /\ f.src = n /\ f.dst = node[n].myPort
                  /\ f.time = e.time + cfg.linkDelay
                  /\ inflight' = (inflight \ {e}) \cup {f}
           /\ node'[n].cycle # node[n].cycle =>
                /\ node'[n] = [node[n] EXCEPT !.cycle = @ + 1]
                /\ inflight' = inflight
       ]_vars

\* the debugger has run the test for 2000 ns: a component has ticked twice
\* and handled events, nobody has voted and an event is waiting beyond the
\* time asked for
C22_Witness ==
  /\ cfg.runFor = 2000
  /\ \E n \in LoopNodes :
       /\ node[n].cycle = 2
       /\ Len(node[n].out) >= 3
       /\ ~node[n].okToEnd
  /\ \A e \in inflight : e.time > cfg.runFor
  /\ inflight # {}

\* the sum of f[n] over the nodes in S
RECURSIVE SumOver(_, _)
SumOver(f, S) ==
  IF S = {} THEN 0
  ELSE LET n == CHOOSE m \in S : TRUE
       IN f[n] + SumOver(f, S \ {n})

\* every node is past setup and running or torn down
AllSetUp == \A n \in Nodes : node[n].state \in {"ready", "finished"}

NextPresent(nd, k) ==
  LET L == NumLinks(nd)
      j == CHOOSE i \in 0..(L - 1) :
             /\ nd.links[((k + i) % L) + 1] # NoLink
             /\ \A h \in 0..(i - 1) : nd.links[((k + h) % L) + 1] = NoLink
  IN (k + j) % L

\* the sends of a cyclic node go round the present slots: the first is the
\* first present slot from `from` on, each next the first present slot
\* after the one before; and the counter stands behind the last one
GoesRound(nd, from) ==
  LET s == Sends(nd.log)
  IN /\ \A k \in 1..Len(s) :
          /\ nd.links[s[k][2] + 1] # NoLink
          /\ s[k][2] = NextPresent(nd, IF k = 1 THEN from ELSE s[k - 1][2] + 1)
     /\ (s # <<>> /\ nd.state \in {"ready", "finished"}) =>
          nd.movementFunctionCounter = (s[Len(s)][2] + 1) % NumLinks(nd)
     /\ \A k \in 1..Len(s) : \A h \in (k + 1)..Len(s) :
          s[k][2] = s[h][2] =>
            \A i \in 0..(NumLinks(nd) - 1) :
              nd.links[i + 1] # NoLink =>
                \E g \in k..(h - 1) : s[g][2] = i

\* C32: the recipients a cyclic node chooses, in setup and in every
\* handleEvent, are the present slots in increasing index order with
\* wrap-around, starting from slot 0 (from the stored counter in a node
\* rebuilt from a checkpoint); between two sends on the same slot every
\* present slot is chosen; and after a send the counter is the chosen index
\* + 1 mod numLinks.
C32_CyclicVisitsPresentSlots ==
  /\ \A n \in Nodes :
       (node[n].movementFunction = "movementFunctionCyclic"
          /\ HasPresentSlot(node[n])) => GoesRound(node[n], 0)
  /\ (twin.built /\ ~cfg.foreign
        /\ twin.node.movementFunction = "movementFunctionCyclic") =>
       GoesRound(twin.node,
                 snapshot.buf[FieldIndex(StoredFields(snapshot.kind),
                                         "movementFunctionCounter")])

\* a cyclic node with absent slots and two present ones or more that has
\* been round them twice
C32_Witness ==
  \E n \in Nodes :
    LET nd == node[n]
        present == { i \in 1..NumLinks(nd) : nd.links[i] # NoLink }
    IN /\ nd.movementFunction = "movementFunctionCyclic"
       /\ Cardinality(present) >= 2
       /\ Cardinality(present) < NumLinks(nd)
       /\ Len(Sends(nd.log)) > 2 * Cardinality(present)
       /\ nd.links[1] = NoLink

\* the kinds of the log entries i..j
Kinds(log, i, j) == [k \in 1..(j - i + 1) |-> log[i + k - 1][1]]

\* ks is one selector attempt after the other: a generator word and the
\* index under Random, the index alone under Cyclic; one attempt at least
IsAttempts(nd, ks) ==
  IF nd.movementFunction = "movementFunctionRandom"
  THEN /\ Len(ks) >= 2 /\ Len(ks) % 2 = 0
       /\ \A k \in 1..Len(ks) :
            ks[k] = IF k % 2 = 1 THEN "uint32" ELSE "select"
  ELSE /\ Len(ks) >= 1
       /\ \A k \in 1..Len(ks) : ks[k] = "select"

\* what the delay model logs: its draw, if it takes one, and the delay
DelayBlock(nd) ==
  IF nd.kind = "Node" THEN <<"delay">> ELSE <<"uniform", "delay">>

\* the index of the send that ends the call begun at entry i (0 if the call
\* did not get to its send)
SendAfter(log, i) ==
  LET later == { j \in (i + 1)..Len(log) :
                   log[j][1] \in {"send", "recv", "tick", "period"} }
      first == CHOOSE j \in later : \A h \in later : j <= h
  IN IF later = {} THEN 0
     ELSE IF log[first][1] = "send" THEN first ELSE 0

\* the entries of a node's log are in the order of C33
DrawOrder(nd) ==
  LET log == nd.log
      tail == <<"uniform", "payload", "send">>
      dly == DelayBlock(nd)
  IN \A i \in 1..Len(log) :
       LET j == SendAfter(log, i)
       IN /\ (log[i][1] = "recv" /\ j # 0) =>
               LET ks == Kinds(log, i + 1, j)
                   a == Len(ks) - Len(tail) - Len(dly)
               IN /\ a >= 1
                  /\ IsAttempts(nd, SubSeq(ks, 1, a))
                  /\ SubSeq(ks, a + 1, a + Len(dly)) = dly
                  /\ SubSeq(ks, a + Len(dly) + 1, Len(ks)) = tail
          /\ (log[i][1] \in {"setup", "send", "period"} /\ j # 0) =>
               LET ks == Kinds(log, i + 1, j)
               IN /\ Len(ks) >= 4
                  /\ SubSeq(ks, 1, 2) = <<"uniform", "payload">>
                  /\ IsAttempts(nd, SubSeq(ks, 3, Len(ks) - 1))

\* C33: in the log of every node, and of the node rebuilt from a
\* checkpoint, each handleEvent that reaches its send logs its selector
\* attempts first (a generator word each under Random, none under Cyclic),
\* then the delay (with its draw, except for the base Node), then the
\* payload draw, then the send; each initial event of setup logs the
\* payload draw first and the selector attempts after it; the draws are
\* the successive words of the generator; and a running cyclic node of the
\* base class has drawn exactly once per event it has sent.
C33_DrawOrder ==
  /\ \A n \in Nodes :
       /\ DrawOrder(node[n])
       /\ DrawChain(node[n])
       /\ (node[n].movementFunction = "movementFunctionCyclic"
             /\ node[n].kind = "Node"
             /\ node[n].state \in {"ready", "finished"}) =>
            Len(Draws(node[n].log)) = Len(Sends(node[n].log))
  /\ twin.built => DrawOrder(twin.node)

\* a random node with a delay model that re-drew its slot in setup and in
\* handleEvent
C33_Witness ==
  \E n \in Nodes :
    LET log == node[n].log
    IN /\ node[n].kind # "Node"
       /\ node[n].movementFunction = "movementFunctionRandom"
       /\ \E i \in 1..(Len(log) - 4) :
            /\ log[i][1] = "recv"
            /\ log[i + 2][1] = "select"
            /\ log[i + 4][1] = "select"
       /\ \E i \in 1..(Len(log) - 4) :
            /\ log[i][1] = "payload"
            /\ log[i + 2][1] = "select"
            /\ log[i + 4][1] = "select"
            /\ \A h \in 1..i : log[h][1] # "recv"

\* the node of a run without checkpoint: constructed, set up and handed k
\* events, with no call of serialize_order in between
NeverCheckpointed(n, k) ==
  Fed(CallSetup(cfg, Construct(cfg, n)).node, k, cfg.infConv)

\* C34: the step that takes a checkpoint changes no node and no event in
\* flight; packing a node returns the node as it was, generator, counters,
\* tag and selector included; and from the checkpoint on the checkpointed
\* node logs what the node of the run without checkpoint logs (selections,
\* draws, delays, sizes, sends) and holds the same recvCount, counter and
\* generator.
C34_CheckpointDoesNotPerturb ==
  /\ [][ snapshot' # snapshot => node' = node /\ inflight' = inflight ]_vars
  /\ [](\A n \in Nodes :
          LET s == serialize_order(node[n], [mode |-> "PACK", buf |-> <<>>])
          IN /\ s.node.rng = node[n].rng
             /\ s.node = node[n])
  /\ [](snapshot.taken /\ node[snapshot.of].state \in {"ready", "finished"}
          => LET n == snapshot.of
                 r == NeverCheckpointed(n, node[n].recvCount)
             IN /\ WithoutTicks(node[n].log) = r.log
                /\ Sends(node[n].log) = Sends(r.log)
                /\ node[n].recvCount = r.recvCount
                /\ node[n].movementFunctionCounter = r.movementFunctionCounter
                /\ node[n].movementFunctionType = r.movementFunctionType
                /\ node[n].movementFunction = r.movementFunction
                /\ node[n].rng = r.rng)

\* a node that was checkpointed and has handled two events or more since,
\* drawing on the way
C34_Witness ==
  /\ snapshot.taken
  /\ Len(Sends(SinceCheckpoint)) >= 2
  /\ Len(Draws(SinceCheckpoint)) >= 3
  /\ node[snapshot.of].kind # "Node"

\* unpacking the bytes of nd into a fresh node of its class and packing
\* that node gives the bytes again, and the fresh node holds every stored
\* field as stored; the same for the bytes under an unknown tag, where the
\* selector is the Random one
RoundTrips(nd) ==
  LET buf == Pack(nd)
      foreign == Retagged(buf, UnknownTag)
      names == StoredFields(nd.kind)
      tagAt == FieldIndex(names, "movementFunctionType")
      t == Unpack(nd.kind, buf)
      u == Unpack(nd.kind, foreign)
  IN /\ Pack(t) = buf
     /\ Pack(u) = foreign
     /\ Len(buf) = Len(names)
     /\ \A i \in 1..Len(names) : /\ t[names[i]] = buf[i]
                                 /\ u[names[i]] = foreign[i]
     /\ tagAt > 0
     /\ foreign[tagAt] = UnknownTag
     /\ u.movementFunctionType = UnknownTag
     /\ u.movementFunction = "movementFunctionRandom"

\* C35: for the packed state of every node in every reachable state (a
\* checkpoint can be taken in any of them), restore followed at once by a
\* checkpoint gives the same bytes, field for field (myId, position,
\* configuration, recvCount, policy tag, cyclic counter, generator); so it
\* does for the
\* same bytes under a tag that is neither RANDOM nor CYCLIC, where the tag
\* stays as stored and the selector is the Random one; and the node the
\* kernel rebuilt packs to the bytes it was built from, until it handles
\* an event.
C35_RestoreThenCheckpoint ==
  /\ \A n \in Nodes : RoundTrips(node[n])
  /\ (twin.built /\ twin.node.log = <<>>) =>
       Pack(twin.node) = IF cfg.foreign
                         THEN Retagged(snapshot.buf, UnknownTag)
                         ELSE snapshot.buf

\* the node rebuilt from bytes with an unknown tag, before its first event,
\* the bytes holding a cyclic counter above 0, while a node of the run has
\* received events and moved its cyclic counter
C35_Witness ==
  /\ twin.built
  /\ cfg.foreign
  /\ twin.node.log = <<>>
  /\ twin.node.movementFunctionType = UnknownTag
  /\ twin.node.movementFunctionCounter >= 1
  /\ \E n \in Nodes : /\ node[n].recvCount >= 2
                      /\ node[n].movementFunctionCounter >= 1

(***************************************************************************)
(* The Faster/Slower failure test: a third element library with two        *)
(* components, FasterNode and SlowerNode, each with one port myPort and a  *)
(* 1000ns clock.  Its runs are the behaviours of FSSpec, over the same     *)
(* variables; times are in ns.  A node is [kind, payload, myPort, okToEnd, *)
(* votedAt, state, cycle, sent, now, out]: votedAt is the time at which    *)
(* the kernel's exit count took the node's vote.                           *)
(***************************************************************************)
\* registerClock("1000ns", clkHandler)
FSClockPeriod == 1000

FasterNodeCtor(id, params) ==
  [ id |-> id,
    kind |-> "FasterNode",
    payload |-> IF "payload" \in params.given THEN params.payload ELSE 0,
    myPort |-> params.myPort,
    okToEnd |-> FALSE,
    votedAt |-> 0,
    state |-> "constructed",
    cycle |-> 0,
    sent |-> 0,
    now |-> 0,
    out |-> <<>> ]

SlowerNodeCtor(id, params) ==
  [ id |-> id,
    kind |-> "SlowerNode",
    payload |-> IF "payload" \in params.given THEN params.payload ELSE 0,
    myPort |-> params.myPort,
    okToEnd |-> FALSE,
    votedAt |-> 0,
    state |-> "constructed",
    cycle |-> 0,
    sent |-> 0,
    now |-> 0,
    out |-> <<>> ]

\* myPort->send(new SST::Event())
FasterNodeSetup(nd) ==
  [ node |-> [nd EXCEPT !.state = "ready", !.sent = @ + 1], sends |-> 1 ]

SlowerNodeSetup(nd) ==
  [ node |-> [nd EXCEPT !.state = "ready", !.sent = @ + 1], sends |-> 1 ]

\* a faster node that answers an event with one event
FasterNodeHandleEventOnce(nd, deliveryTime) ==
  [ node |-> [nd EXCEPT !.out = Append(@, << "Received event at timestamp ",
                                             deliveryTime,
                                             ", in faster node\n" >>),
                        !.now = deliveryTime,
                        !.sent = @ + 1],
    sends |-> 1 ]

\* prints the delivery time, deletes the event and sends two new ones on
\* myPort
FasterNodeHandleEvent(nd, deliveryTime) ==
  [ node |-> [nd EXCEPT !.out = Append(@, << "Received event at timestamp ",
                                             deliveryTime,
                                             ", in faster node\n" >>),
                        !.now = deliveryTime,
                        !.sent = @ + 2],
    sends |-> 2 ]

\* prints the delivery time, deletes the event and sends one new one
SlowerNodeHandleEvent(nd, deliveryTime) ==
  [ node |-> [nd EXCEPT !.out = Append(@, << "Received event at timestamp ",
                                             deliveryTime,
                                             ", in slower node ", "\n" >>),
                        !.now = deliveryTime,
                        !.sent = @ + 1],
    sends |-> 1 ]

\* primaryComponentOKToEndSim(); returns false
FasterNodeTick(nd) == [nd EXCEPT !.cycle = @ + 1, !.okToEnd = TRUE]

SlowerNodeTick(nd) == [nd EXCEPT !.cycle = @ + 1, !.okToEnd = TRUE]

FasterNodeFinish(nd) ==
  [nd EXCEPT !.state = "finished",
             !.out = Append(@, << "faster component done\n" >>)]

SlowerNodeFinish(nd) ==
  [nd EXCEPT !.state = "finished",
             !.out = Append(@, << "slower component done\n" >>)]

\* the wirings of myPort (one pair, two pairs) with the component at each
\* end, the latency of the links and the payloads
FSWirings ==
  { [ myPort |-> <<1, 0>>, kinds |-> <<a, b>> ] :
      a \in {"FasterNode", "SlowerNode"},
      b \in {"FasterNode", "SlowerNode"} }
  \cup { [ myPort |-> <<1, 0, 3, 2>>,
           kinds |-> <<"FasterNode", "SlowerNode",
                       "SlowerNode", "SlowerNode">> ] }

FSCfgs ==
  { [ test |-> "fasterSlower", myPort |-> w.myPort, kinds |-> w.kinds,
      linkDelay |-> l, given |-> g, payload |-> 7 ] :
      w \in FSWirings, l \in {300, 500, 1000}, g \in { {}, {"payload"} } }

FSInit ==
  /\ cfg \in FSCfgs
  /\ node = [ n \in 1..Len(cfg.myPort) |->
                LET params == [ given |-> cfg.given,
                                payload |-> cfg.payload + n,
                                myPort |-> cfg.myPort[n] + 1 ]
                IN IF cfg.kinds[n] = "FasterNode"
                   THEN FasterNodeCtor(n, params)
                   ELSE SlowerNodeCtor(n, params) ]
  /\ inflight = {}
  /\ ps = 0
  /\ snapshot = NoSnapshot
  /\ twin = NoTwin

\* every primary component has voted: the kernel ends the run at the time
\* of the last vote, after the events of that time
FSAllVoted == \A n \in LoopNodes : node[n].okToEnd

RECURSIVE FSLastVote(_)
FSLastVote(S) ==
  IF S = {} THEN 0
  ELSE LET n == CHOOSE m \in S : TRUE
           rest == FSLastVote(S \ {n})
       IN IF node[n].votedAt > rest THEN node[n].votedAt ELSE rest

FSSetup(n) ==
  /\ node[n].state = "constructed"
  /\ LET r == IF node[n].kind = "FasterNode" THEN FasterNodeSetup(node[n])
              ELSE SlowerNodeSetup(node[n])
     IN /\ node' = [node EXCEPT ![n] = r.node]
        /\ inflight' = inflight \cup LoopEmitted(n, node[n], r.sends, 0)
  /\ UNCHANGED <<cfg, ps, snapshot, twin>>

\* the earliest event of n, once its clock ticks up to that time are done
\* (the clock ticks its handlers in the order of time)
FSHandleEvent(n) ==
  /\ LoopAllReady
  /\ \E e \in inflight :
       /\ e.dst = n
       /\ FSAllVoted => e.time <= FSLastVote(LoopNodes)
       /\ \A f \in inflight : f.dst = n => Before(e, f)
       /\ LoopNothingBefore(n, e.time)
       /\ (node[n].cycle + 1) * FSClockPeriod > e.time
       /\ LET r == IF node[n].kind = "FasterNode"
                   THEN FasterNodeHandleEvent(node[n], e.time)
                   ELSE SlowerNodeHandleEvent(node[n], e.time)
          IN /\ node' = [node EXCEPT ![n] = r.node]
             /\ inflight' = (inflight \ {e})
                              \cup LoopEmitted(n, node[n], r.sends, e.time)
  /\ UNCHANGED <<cfg, ps, snapshot, twin>>

FSTick(n) ==
  /\ LoopAllReady
  /\ ~FSAllVoted
  /\ \A m \in LoopNodes : node[m].cycle >= node[n].cycle
  /\ LoopNothingBefore(n, (node[n].cycle + 1) * FSClockPeriod)
  /\ LET t == IF node[n].kind = "FasterNode" THEN FasterNodeTick(node[n])
              ELSE SlowerNodeTick(node[n])
     IN node' = [node EXCEPT ![n] =
                   [t EXCEPT !.votedAt =
                      IF t.okToEnd /\ ~node[n].okToEnd
                      THEN t.cycle * FSClockPeriod ELSE @]]
  /\ UNCHANGED <<cfg, inflight, ps, snapshot, twin>>

\* the run has ended; the kernel calls finish() of every component
FSFinish(n) ==
  /\ node[n].state = "ready"
  /\ FSAllVoted
  /\ \A m \in LoopNodes : node[m].state \in {"ready", "finished"}
  /\ \A e \in inflight : e.time > FSLastVote(LoopNodes)
  /\ node' = [node EXCEPT ![n] =
                IF node[n].kind = "FasterNode"
                THEN FasterNodeFinish(node[n])
                ELSE SlowerNodeFinish(node[n])]
  /\ UNCHANGED <<cfg, inflight, ps, snapshot, twin>>

FSNext ==
  \/ \E n \in LoopNodes : FSSetup(n)
  \/ \E n \in LoopNodes : FSHandleEvent(n)
  \/ \E n \in LoopNodes : FSTick(n)
  \/ \E n \in LoopNodes : FSFinish(n)

FSSpec == FSInit /\ [][FSNext]_vars

\* C36: a step in which a FasterNode handles an event takes that event out
\* of flight and puts in exactly two, both sent on myPort, so the number in
\* flight grows by one; a step in which a SlowerNode handles an event takes
\* it out and puts in exactly one on myPort; no step of a run lowers the
\* number of events in flight; and a clock tick of either node type is at
\* a multiple of 1000 ns and leaves the node voted OK-to-end, every node
\* having voted once it has ticked.
C36_FasterSlowerFlow ==
  /\ [](\A n \in LoopNodes : node[n].cycle >= 1 => node[n].okToEnd)
  /\ [][ /\ Cardinality(inflight') >= Cardinality(inflight)
         /\ \A n \in LoopNodes :
              /\ Len(node'[n].out) # Len(node[n].out)
                   /\ node'[n].state = "ready" =>
                   LET new == inflight' \ inflight
                       k == IF node[n].kind = "FasterNode" THEN 2 ELSE 1
                   IN /\ Cardinality(inflight \ inflight') = 1
                      /\ \A e \in inflight \ inflight' : e.dst = n
                      /\ Cardinality(new) = k
                      /\ node'[n].sent = node[n].sent + k
                      /\ \A f \in new : /\ f.src = n
                                        /\ f.dst = node[n].myPort
                      /\ Cardinality(inflight')
                           = Cardinality(inflight) + k - 1
              /\ node'[n].cycle # node[n].cycle =>
                   /\ node'[n].okToEnd
                   /\ node'[n].cycle = node[n].cycle + 1
                   /\ node'[n].votedAt = node'[n].cycle * FSClockPeriod
                   /\ inflight' = inflight
       ]_vars

\* a FasterNode and a SlowerNode have both handled events, more events are
\* in flight than components were set up, and every node has voted at its
\* tick
C36_Witness ==
  /\ \E n \in LoopNodes : /\ node[n].kind = "FasterNode"
                          /\ Len(node[n].out) >= 2
  /\ \E n \in LoopNodes : /\ node[n].kind = "SlowerNode"
                          /\ Len(node[n].out) >= 2
  /\ Cardinality(inflight) > Len(cfg.myPort)
  /\ FSAllVoted
  /\ \A n \in LoopNodes : node[n].cycle = 1

====
